---- MODULE Spec2Model ----
(***************************************************************************)
(* powa-web: the sampled series behind the server and database overview    *)
(* pages.  The stored snapshot tables are the state; the SQL views of      *)
(* powa/sql/views.py are operators over them; the metric groups of         *)
(* powa/server.py and powa/database.py are the requests.                   *)
(*                                                                         *)
(* Timestamps are whole epoch seconds.  One server (:server) is modelled;  *)
(* a database is named by its oid (datname and dbid are one-to-one in      *)
(* powa_databases).  An SQL value that may be NULL is <<>> (NULL) or <<v>>.*)
(* A per-second value is kept as the pair n / d that the query divides.    *)
(***************************************************************************)
EXTENDS Integers, Sequences, FiniteSets, TLC

VARIABLES
    now,                                  \* clock of the snapshot worker
    powa_statements_history_db,           \* coalesced statement snapshots
    powa_statements_history_current_db,   \* statement snapshots not yet coalesced
    powa_kcache_metrics_db,               \* coalesced pg_stat_kcache snapshots
    powa_kcache_metrics_current_db,       \* pg_stat_kcache snapshots not yet coalesced
    powa_wait_sampling_history_db,        \* coalesced pg_wait_sampling snapshots
    powa_wait_sampling_history_current_db, \* pg_wait_sampling snapshots not yet coalesced
    extensions,                           \* what has_extension answers for the server
    res,                                  \* what the last request returned
    part,                                 \* a partition handed to the sampler alone
    cls_metrics,                          \* the metrics mapping of each metric group class
    self_dashboard                        \* the _dashboard attribute of each page instance

vars == <<now, powa_statements_history_db, powa_statements_history_current_db,
          powa_kcache_metrics_db, powa_kcache_metrics_current_db,
          powa_wait_sampling_history_db, powa_wait_sampling_history_current_db,
          extensions, res, part, cls_metrics, self_dashboard>>

tables == <<now, powa_statements_history_db, powa_statements_history_current_db,
            powa_kcache_metrics_db, powa_kcache_metrics_current_db,
            powa_wait_sampling_history_db, powa_wait_sampling_history_current_db>>

-----------------------------------------------------------------------------
(* Bounds of the model *)

MaxTs == 4          \* snapshot rounds taken
CoalesceEvery == 2  \* snapshot rounds between two coalesces
MaxTotal == 210     \* largest partition handed to the sampler alone

(* Program constants *)

SAMPLES == 100      \* .params(samples=100)

powa_databases == {1, 2}

\* The budgets bound to :samples: the 100 of the metric groups, and 1, at
\* which a stride above 1 is reached by a partition of four snapshots.
SampleBudgets == {1, SAMPLES}

NoResult == [op |-> "none"]

\* The cumulative counters a snapshot round writes for one database: the
\* statement counters, the pg_stat_kcache counters and the pg_wait_sampling
\* counts per event.  The value drops from the second to the first (a counter
\* reset); an event type is not seen in every snapshot.
SnapVals ==
    { [stat   |-> [calls |-> 20, total_time |-> 60,
                   shared_blks_read |-> 3, shared_blks_hit |-> 5],
       kcache |-> [reads |-> 8192, minflts |-> 4, majflts |-> 1,
                   nvcsws |-> 6, nivcsws |-> 2],
       wait   |-> { [event_type |-> "Lock", event |-> "relation", count |-> 3],
                    [event_type |-> "Lock", event |-> "tuple", count |-> 1],
                    [event_type |-> "LWLockNamed", event |-> "ProcArrayLock",
                     count |-> 2] }],
      [stat   |-> [calls |-> 100, total_time |-> 90,
                   shared_blks_read |-> 7, shared_blks_hit |-> 5],
       kcache |-> [reads |-> 24576, minflts |-> 9, majflts |-> 1,
                   nvcsws |-> 8, nivcsws |-> 5],
       wait   |-> { [event_type |-> "Lock", event |-> "relation", count |-> 9],
                    [event_type |-> "IO", event |-> "DataFileRead",
                     count |-> 4] }] }

StatCounters == {"calls", "total_time", "shared_blks_read", "shared_blks_hit"}
KcacheCounters == {"reads", "minflts", "majflts", "nvcsws", "nivcsws"}

\* The count_* columns of the wait samples and the event_type each one filters
EventType ==
    [count_lwlocknamed |-> "LWLockNamed", count_lwlocktranche |-> "LWLockTranche",
     count_lwlock |-> "LWLock", count_lock |-> "Lock",
     count_bufferpin |-> "BufferPin", count_activity |-> "Activity",
     count_client |-> "Client", count_extension |-> "Extension",
     count_ipc |-> "IPC", count_timeout |-> "Timeout", count_io |-> "IO"]

WaitCounters == DOMAIN EventType

-----------------------------------------------------------------------------
(* SQL helpers *)

NULL == <<>>

RECURSIVE sum(_, _)
\* sum(var) over the rows: NULL values are skipped, and the sum of no value
\* is NULL
sum(rows, var) ==
    IF rows = {} THEN NULL
    ELSE LET r == CHOOSE x \in rows : TRUE
             rest == sum(rows \ {r}, var)
         IN IF r[var] = NULL THEN rest
            ELSE IF rest = NULL THEN r[var]
            ELSE <<r[var][1] + rest[1]>>

\* The columns of a stored record as SQL values
Columns(record, counters) == [var \in counters |-> <<record[var]>>]

\* Variant of the filter on the range '[)', without its upper bound
RangeContainsHalfOpen(from, to, ts) == from <= ts /\ ts < to

\* Variant of the filter that lets every timestamp through
RangeContainsAny(from, to, ts) == TRUE

\* tstzrange(:from, :to, '[]') @> ts
RangeContains(from, to, ts) == from <= ts /\ ts <= to

\* Variant of the constructor that raises nothing
tstzrangeAny(from, to) == ""

\* The error of tstzrange(:from, :to, '[]'), "" when none.  The constructor
\* raises "range lower bound must be less than or equal to range upper
\* bound" on from > to; its arguments are literals of the statement, so the
\* database raises whatever the tables hold.
tstzrange(from, to) == IF from > to THEN "DataError" ELSE ""

\* coalesce_range && tstzrange(:from, :to, '[]')
RangeOverlaps(range, from, to) == range[1] <= to /\ from <= range[2]

RECURSIVE OrderByTs(_)
\* ORDER BY ts of a set of rows, as a sequence.  Rows of equal ts (the same
\* snapshot in both tiers) are put in one fixed order.
OrderByTs(S) ==
    IF S = {} THEN <<>>
    ELSE LET m == CHOOSE x \in S : \A y \in S : x.ts <= y.ts
         IN <<m>> \o OrderByTs(S \ {m})

RECURSIVE AllOrderByTs(_)
\* Every sequence ORDER BY ts may return for the rows S
AllOrderByTs(S) ==
    IF S = {} THEN {<<>>}
    ELSE UNION { { <<m>> \o t : t \in AllOrderByTs(S \ {m}) } :
                 m \in {x \in S : \A y \in S : x.ts <= y.ts} }

int8larger(a, b) == IF a > b THEN a ELSE b

\* greatest(a, minval) of PostgreSQL: a NULL argument is ignored
greatest(a, minval) ==
    IF a = NULL THEN minval ELSE int8larger(a[1], minval)

-----------------------------------------------------------------------------
(* The sampler of the BASE_QUERY_*_SAMPLE_* texts *)

\* Variants of the stride and of the WHERE: the budget as the divisor rounded
\* up, :samples+1 read as (total/:samples)+1, and ranks counted from 0
StrideCeiling(total, samples) ==
    int8larger((total + samples - 1) \div samples, 1)

StridePrecedence(total, samples) == int8larger(total \div samples + 1, 1)

\* Variant of the stride: the quotient rounded to the nearest integer
StrideRounded(total, samples) ==
    int8larger((2 * total + samples + 1) \div (2 * (samples + 1)), 1)

\* Variant of the stride: :samples as the divisor
StrideNoPlusOne(total, samples) == int8larger(total \div samples, 1)

Stride(total, samples) == int8larger(total \div (samples + 1), 1)

SampledFromZero(number, total, samples) ==
    (number - 1) % int8larger(total \div (samples + 1), 1) = 0

SampledAll(number, total, samples) == TRUE

\* Variant of the WHERE: the kept ranks counted back from the last one
SampledFromLast(number, total, samples) ==
    number % Stride(total, samples) = total % Stride(total, samples)

\* WHERE number % ( int8larger((total)/(:samples+1),1) ) = 0
Sampled(number, total, samples) == number % Stride(total, samples) = 0

\* The rows of an ordered partition that the sampler keeps, each with its
\* row_number() and count(*)
SampleRows(sh, samples) ==
    { sh[n] @@ [number |-> n, total |-> Len(sh)] :
        n \in {i \in 1..Len(sh) : Sampled(i, Len(sh), samples)} }

-----------------------------------------------------------------------------
(* Statement snapshots *)

\* FROM (... UNION ALL ...) AS statements_history, for database d
statements_history(d, from, to) ==
    UNION { { [src |-> "history", dbid |-> psh.dbid, ts |-> r.ts]
              @@ Columns(r, StatCounters) :
                r \in {x \in psh.records : RangeContains(from, to, x.ts)} } :
            psh \in { h \in powa_statements_history_db :
                        /\ RangeOverlaps(h.coalesce_range, from, to)
                        /\ h.dbid = d } }
    \cup
    { [src |-> "current", dbid |-> c.dbid, ts |-> c.record.ts]
      @@ Columns(c.record, StatCounters) :
        c \in { x \in powa_statements_history_current_db :
                  /\ RangeContains(from, to, x.record.ts)
                  /\ x.dbid = d } }

BASE_QUERY_SAMPLE_DB(from, to, samples) ==
    UNION { SampleRows(OrderByTs(statements_history(d, from, to)), samples) :
            d \in powa_databases }

-----------------------------------------------------------------------------
(* The window functions of the sampled views *)

\* GROUP BY base_columns + [ts], with sum(column(var)) of every counter
GroupBy(rows, counters) ==
    { LET grp == {r \in rows : r.dbid = k.dbid /\ r.ts = k.ts}
      IN k @@ [var \in counters |-> sum(grp, var)] :
      k \in {[dbid |-> r.dbid, ts |-> r.ts] : r \in rows} }

\* The row lead(...) OVER (PARTITION BY base_columns ORDER BY ts) reads: the
\* next group of the partition of g, NULL when g is the last one
Lead(groups, g) ==
    LET later == {h \in groups : h.dbid = g.dbid /\ h.ts > g.ts}
    IN IF later = {} THEN NULL
       ELSE <<CHOOSE h \in later : \A k \in later : h.ts <= k.ts>>

\* a - b of SQL: NULL when either side is
Minus(a, b) == IF a = NULL \/ b = NULL THEN NULL ELSE <<a[1] - b[1]>>

\* Biggest.__call__: greatest(lead(var) - var, minval)
Biggest(nxt, g, var, minval) ==
    greatest(IF nxt = NULL THEN NULL ELSE <<nxt[1][var] - g[var]>>, minval)

\* Variant of Biggestsum without the greatest
BiggestsumNoGreatest(nxt, g, var, minval) ==
    LET diff == Minus(IF nxt = NULL THEN NULL ELSE nxt[1][var], g[var])
    IN IF diff = NULL THEN minval ELSE diff[1]

\* Biggestsum.__call__: greatest(lead(sum(var)) - sum(var), minval), on
\* groups that hold sum(var)
Biggestsum(nxt, g, var, minval) ==
    greatest(Minus(IF nxt = NULL THEN NULL ELSE nxt[1][var], g[var]), minval)

\* powa_getstatdata_sample("db", ...), with the caller's WHERE on datname
\* (dbs: the databases it lets through)
powa_getstatdata_sample(dbs, from, to, samples) ==
    UNION { { [dbid |-> g.dbid,
                ts |-> g.ts,
                mesure_interval |-> Biggest(Lead(groups, g), g, "ts", 0),
                calls |-> Biggestsum(Lead(groups, g), g, "calls", 0),
                runtime |-> Biggestsum(Lead(groups, g), g, "total_time", 0),
                shared_blks_read |->
                    Biggestsum(Lead(groups, g), g, "shared_blks_read", 0),
                shared_blks_hit |->
                    Biggestsum(Lead(groups, g), g, "shared_blks_hit", 0)] :
              g \in groups } :
            groups \in {GroupBy({r \in BASE_QUERY_SAMPLE_DB(from, to, samples) :
                                   r.dbid \in dbs},
                                StatCounters)} }

-----------------------------------------------------------------------------
(* pg_stat_kcache snapshots *)

\* FROM (... UNION ALL ...) km, for database d
kcache_metrics(d, from, to) ==
    UNION { { [src |-> "history", dbid |-> kmd.dbid, ts |-> r.ts]
              @@ Columns(r, KcacheCounters) :
                r \in {x \in kmd.metrics : RangeContains(from, to, x.ts)} } :
            kmd \in { h \in powa_kcache_metrics_db :
                        /\ h.dbid = d
                        /\ RangeOverlaps(h.coalesce_range, from, to) } }
    \cup
    { [src |-> "current", dbid |-> c.dbid, ts |-> c.metrics.ts]
      @@ Columns(c.metrics, KcacheCounters) :
        c \in { x \in powa_kcache_metrics_current_db :
                  /\ x.dbid = d
                  /\ RangeContains(from, to, x.metrics.ts) } }

\* SELECT km.ts, sum(km.reads), ... FROM km GROUP BY km.ts
kmbq(d, from, to) == GroupBy(kcache_metrics(d, from, to), KcacheCounters)

BASE_QUERY_KCACHE_SAMPLE_DB(from, to, samples) ==
    UNION { SampleRows(OrderByTs(kmbq(d, from, to)), samples) :
            d \in powa_databases }

\* kcache_getstatdata_sample("db"), with the caller's WHERE on srvid and datname
kcache_getstatdata_sample(dbs, from, to, samples) ==
    UNION { { [dbid |-> g.dbid, ts |-> g.ts] @@
              [var \in KcacheCounters |-> Biggestsum(Lead(groups, g), g, var, 0)] :
              g \in groups } :
            groups \in {GroupBy({r \in BASE_QUERY_KCACHE_SAMPLE_DB(from, to, samples) :
                                   r.dbid \in dbs},
                                KcacheCounters)} }

-----------------------------------------------------------------------------
(* pg_wait_sampling snapshots *)

\* GROUP BY srvid, dbid, event_type, ts with sum(count) AS count, of the
\* unnested rows of one tier
WaitsByEventType(src, unnested) ==
    { [src |-> src, dbid |-> k.dbid, event_type |-> k.event_type, ts |-> k.ts,
       count |-> sum({r \in unnested : /\ r.dbid = k.dbid
                                       /\ r.event_type = k.event_type
                                       /\ r.ts = k.ts}, "count")] :
      k \in {[dbid |-> r.dbid, event_type |-> r.event_type, ts |-> r.ts] :
               r \in unnested} }

\* FROM (... UNION ALL ...) AS waits_history, for database d
waits_history(d, from, to) ==
    WaitsByEventType("history",
        UNION { { [dbid |-> wsh.dbid, event_type |-> wsh.event_type,
                   event |-> wsh.event, ts |-> r.ts, count |-> <<r.count>>] :
                    r \in {x \in wsh.records : RangeContains(from, to, x.ts)} } :
                wsh \in { h \in powa_wait_sampling_history_db :
                            /\ RangeOverlaps(h.coalesce_range, from, to)
                            /\ h.dbid = d } })
    \cup
    WaitsByEventType("current",
        { [dbid |-> wshc.dbid, event_type |-> wshc.event_type,
           event |-> wshc.event, ts |-> wshc.record.ts,
           count |-> <<wshc.record.count>>] :
            wshc \in { x \in powa_wait_sampling_history_current_db :
                         /\ RangeContains(from, to, x.record.ts)
                         /\ x.dbid = d } })

\* SELECT ts, sum(count) FILTER (WHERE event_type = ...) AS count_..., ...
\* FROM waits_history GROUP BY ts, srvid, dbid
wh(d, from, to) ==
    UNION { { [dbid |-> k.dbid, ts |-> k.ts] @@
              [var \in WaitCounters |->
                 sum({r \in waits : /\ r.dbid = k.dbid
                                    /\ r.ts = k.ts
                                    /\ r.event_type = EventType[var]}, "count")] :
              k \in {[dbid |-> r.dbid, ts |-> r.ts] : r \in waits} } :
            waits \in {waits_history(d, from, to)} }

BASE_QUERY_WAIT_SAMPLE_DB(from, to, samples) ==
    UNION { SampleRows(OrderByTs(wh(d, from, to)), samples) :
            d \in powa_databases }

\* powa_getwaitdata_sample(srvid, "db"), with the caller's WHERE on datname
powa_getwaitdata_sample(dbs, from, to, samples) ==
    UNION { { [dbid |-> g.dbid, ts |-> g.ts,
               mesure_interval |-> Biggest(Lead(groups, g), g, "ts", 0)] @@
              [var \in WaitCounters |-> Biggestsum(Lead(groups, g), g, var, 0)] :
              g \in groups } :
            groups \in {GroupBy({r \in BASE_QUERY_WAIT_SAMPLE_DB(from, to, samples) :
                                   r.dbid \in dbs},
                                WaitCounters)} }

-----------------------------------------------------------------------------
(* The metric groups all_databases and database_overview *)

has_extension(extname) == extname \in extensions

Rate(n, d) == [n |-> n, d |-> d]

block_size == 8192

\* Variant of the divisor without the greatest
EpochNoFloor(mesure_interval) == mesure_interval

\* greatest(extract("epoch", c.mesure_interval), 1), and sum_per_sec's
\* extract("epoch", greatest(c.mesure_interval, '1 second'))
EpochFloor(mesure_interval) == greatest(<<mesure_interval>>, 1)

RECURSIVE SumJoined(_, _, _)
\* sum(c.var) or sum(kc.var) over the joined rows of one group
SumJoined(grp, side, var) ==
    IF grp = {} THEN 0
    ELSE LET j == CHOOSE x \in grp : TRUE
         IN j[side][var] + SumJoined(grp \ {j}, side, var)

\* total_read(c) and total_hit(c) of powa.sql.utils
total_read(grp, mesure_interval) ==
    Rate(SumJoined(grp, "c", "shared_blks_read") * block_size,
         EpochFloor(mesure_interval))

total_hit(grp, mesure_interval) ==
    Rate(SumJoined(grp, "c", "shared_blks_hit") * block_size,
         EpochFloor(mesure_interval))

\* cols and cols.extend([...]): the labels of the selected columns
QueryColumns(merged) ==
    {"srvid", "ts", "calls", "avg_runtime", "load",
     "total_blks_read", "total_blks_hit"}
    \cup
    (IF merged
     THEN {"total_sys_hit", "total_disk_read", "minflts", "majflts",
           "nvcsws", "nivcsws"}
     ELSE {})

\* from_clause: the sample alone, or joined to the kcache sample on
\* kcache_query.c.ts == c.ts
FromClause(query, kcache_query, merged) ==
    IF merged
    THEN {[c |-> p[1], kc |-> p[2]] :
            p \in {q \in query \X kcache_query : q[2].ts = q[1].ts}}
    ELSE {[c |-> x] : x \in query}

\* .where(c.calls is not None): `is not None` is evaluated by Python on the
\* column object, not by the database; the clause is the constant True
WhereCallsIsNotNone(j) == TRUE

\* group_by(c.srvid, c.ts, bs, c.mesure_interval)
SeriesGroups(from_clause) ==
    {[ts |-> j.c.ts, mesure_interval |-> j.c.mesure_interval] : j \in from_clause}

\* The record selected for one group
SeriesRecord(from_clause, key, merged) ==
    LET grp == {j \in from_clause :
                  /\ j.c.ts = key.ts
                  /\ j.c.mesure_interval = key.mesure_interval}
        calls == SumJoined(grp, "c", "calls")
        runtime == SumJoined(grp, "c", "runtime")
        kcsum(var) == SumJoined(grp, "kc", var)
        base == [srvid |-> "server",
                 ts |-> key.ts,
                 calls |-> Rate(calls, EpochFloor(key.mesure_interval)),
                 avg_runtime |-> Rate(runtime, greatest(<<calls>>, 1)),
                 load |-> Rate(runtime, EpochFloor(key.mesure_interval)),
                 total_blks_read |-> total_read(grp, key.mesure_interval),
                 total_blks_hit |-> total_hit(grp, key.mesure_interval)]
    IN IF merged
       THEN base @@
            [total_sys_hit |->
                 Rate(total_read(grp, key.mesure_interval).n - kcsum("reads"),
                      EpochFloor(key.mesure_interval)),
             total_disk_read |->
                 Rate(kcsum("reads"), EpochFloor(key.mesure_interval)),
             minflts |-> Rate(kcsum("minflts"), EpochFloor(key.mesure_interval)),
             majflts |-> Rate(kcsum("majflts"), EpochFloor(key.mesure_interval)),
             nvcsws |-> Rate(kcsum("nvcsws"), EpochFloor(key.mesure_interval)),
             nivcsws |-> Rate(kcsum("nivcsws"), EpochFloor(key.mesure_interval))]
       ELSE base

\* select(cols).select_from(from_clause).where(c.calls is not None)
\*   .group_by(...).order_by(c.ts): every sequence of records the query may
\* return (groups of equal ts come in either order)
SeriesSelect(query, kcache_query, merged) ==
    UNION { { [i \in 1..Len(o) |-> SeriesRecord(from_clause, o[i], merged)] :
              o \in AllOrderByTs(SeriesGroups(from_clause)) } :
            from_clause \in {{j \in FromClause(query, kcache_query, merged) :
                                 WhereCallsIsNotNone(j)}} }

MetricNames ==
    {"avg_runtime", "calls", "load", "total_blks_hit", "total_blks_read",
     "total_sys_hit", "total_disk_read", "minflts", "majflts",
     "nvcsws", "nivcsws"}

KcacheMetricNames ==
    {"total_sys_hit", "total_disk_read", "minflts", "majflts",
     "nvcsws", "nivcsws"}

\* Variants of _get_metrics: no pop at all, and no pop of total_blks_read
get_metricsNoPop(base, has_kcache) == base

get_metricsKeepBlksRead(base, has_kcache) ==
    IF ~has_kcache THEN base \ KcacheMetricNames ELSE base

\* GlobalDatabasesMetricGroup._get_metrics and
\* DatabaseOverviewMetricGroup._get_metrics (the same text in both classes):
\* the pops, on the mapping `base`
get_metrics(base, has_kcache) ==
    IF ~has_kcache
    THEN base \ KcacheMetricNames
    ELSE base \ {"total_blks_read"}

\* Variant of the first line of _get_metrics: base = cls.metrics, the pops
\* then act on the mapping of the class
metrics_alias(metrics, has_kcache) == get_metrics(metrics, has_kcache)

\* base = cls.metrics.copy(): the mapping of the class after the pops on
\* its copy
metrics_copy(metrics, has_kcache) == metrics

-----------------------------------------------------------------------------
(* The metric groups all_databases_waits and database_waits_overview *)

\* What get_pg_version_num answers: None when the remote server cannot be
\* reached, else its server_version_num
Versions == {NULL, <<90600>>, <<100000>>}

Pg96Columns ==
    {"count_lwlocknamed", "count_lwlocktranche", "count_lock", "count_bufferpin"}

Pg10Columns ==
    {"count_lwlock", "count_lock", "count_bufferpin", "count_activity",
     "count_client", "count_extension", "count_ipc", "count_timeout", "count_io"}

\* Variant that selects the columns of both vocabularies
GlobalWaitsColumnsBoth(pg_version_num) == Pg96Columns \cup Pg10Columns

\* GlobalWaitsMetricGroup.query:
\* if pg_version_num is None or pg_version_num < 100000
GlobalWaitsColumns(pg_version_num) ==
    IF pg_version_num = NULL \/ pg_version_num[1] < 100000
    THEN Pg96Columns ELSE Pg10Columns

\* DatabaseWaitOverviewMetricGroup.query: if pg_version_num < 100000.
\* None < 100000 is True for Python 2 and a TypeError for Python 3: the set
\* of what the interpreter at hand may do
DatabaseWaitsColumns(pg_version_num) ==
    IF pg_version_num = NULL
    THEN {[error |-> "TypeError", cols |-> {}], [error |-> "", cols |-> Pg96Columns]}
    ELSE IF pg_version_num[1] < 100000
    THEN {[error |-> "", cols |-> Pg96Columns]}
    ELSE {[error |-> "", cols |-> Pg10Columns]}

\* wps of GlobalWaitsMetricGroup.query: sum(col) / extract("epoch",
\* greatest(c.mesure_interval, '1 second'))
GlobalWaits_wps(grp, col, mesure_interval) ==
    Rate(SumJoined(grp, "c", col), EpochFloor(mesure_interval))

\* wps of DatabaseWaitOverviewMetricGroup.query: col / extract("epoch",
\* greatest(c.mesure_interval, '1 second'))
DatabaseWaits_wps(c, col) == Rate(c[col], EpochFloor(c.mesure_interval))

\* select(cols).select_from(from_clause).group_by(c.ts, c.mesure_interval)
\*   .order_by(c.ts)
GlobalWaitsSelect(query, cols) ==
    UNION { { [i \in 1..Len(o) |->
                 [ts |-> o[i].ts] @@
                 [col \in cols |->
                    GlobalWaits_wps({j \in from_clause :
                                       /\ j.c.ts = o[i].ts
                                       /\ j.c.mesure_interval = o[i].mesure_interval},
                                    col, o[i].mesure_interval)]] :
              o \in AllOrderByTs(SeriesGroups(from_clause)) } :
            from_clause \in {FromClause(query, {}, FALSE)} }

\* select(cols).select_from(from_clause).order_by(c.ts)
DatabaseWaitsSelect(query, cols) ==
    { [i \in 1..Len(o) |->
         [ts |-> o[i].ts] @@ [col \in cols |-> DatabaseWaits_wps(o[i], col)]] :
      o \in AllOrderByTs(query) }

-----------------------------------------------------------------------------
(* The snapshot worker and the extensions of the monitored server *)

\* The dashboard pages, one instance of each
Pages == {"ServerOverview", "DatabaseOverview"}

\* An empty repository of a server that has pg_wait_sampling installed: its
\* snapshot worker samples the wait events at every round
Init ==
    /\ now = 0
    /\ powa_statements_history_db = {}
    /\ powa_statements_history_current_db = {}
    /\ powa_kcache_metrics_db = {}
    /\ powa_kcache_metrics_current_db = {}
    /\ powa_wait_sampling_history_db = {}
    /\ powa_wait_sampling_history_current_db = {}
    /\ extensions = {"pg_wait_sampling"}
    /\ res = NoResult
    /\ part = NoResult
    /\ cls_metrics = [group \in {"all_databases", "database_overview"} |->
                         MetricNames]
    /\ self_dashboard = [page \in Pages |-> NULL]

NoSnapshot == [stat |-> NULL]

\* The ts of the stored statement snapshots of database d, in both tiers
StoredTs(d) ==
    UNION {{r.ts : r \in h.records} :
           h \in {x \in powa_statements_history_db : x.dbid = d}}
    \cup {c.record.ts : c \in {x \in powa_statements_history_current_db : x.dbid = d}}

\* The stored statement snapshots of database d, of both tiers
StoredRecords(d) ==
    UNION {h.records : h \in {x \in powa_statements_history_db : x.dbid = d}}
    \cup {c.record : c \in {x \in powa_statements_history_current_db : x.dbid = d}}

\* What one snapshot round may write.  Database 1 is there from the first
\* round on and its statistics are never reset; database 2 is created at
\* some round, its statistics may be reset at any round, and once dropped it
\* does not come back.
SnapshotRounds ==
    {snap \in [powa_databases -> SnapVals \cup {NoSnapshot}] :
       /\ snap[1] # NoSnapshot
       /\ \A r \in StoredRecords(1) : r.calls <= snap[1].stat.calls
       /\ snap[2] # NoSnapshot => (StoredTs(2) = {} \/ now \in StoredTs(2))}

Min(S) == CHOOSE x \in S : \A y \in S : x <= y
Max(S) == CHOOSE x \in S : \A y \in S : x >= y

\* The current rows of each database as one coalesced range
\* [min(ts), max(ts)] per database
CoalescedStatements(current) ==
    { [dbid |-> d,
       coalesce_range |-> <<Min({c.record.ts : c \in {x \in current : x.dbid = d}}),
                            Max({c.record.ts : c \in {x \in current : x.dbid = d}})>>,
       records |-> {c.record : c \in {x \in current : x.dbid = d}}] :
      d \in {c.dbid : c \in current} }

CoalescedKcache(current) ==
    { [dbid |-> d,
       coalesce_range |-> <<Min({c.metrics.ts : c \in {x \in current : x.dbid = d}}),
                            Max({c.metrics.ts : c \in {x \in current : x.dbid = d}})>>,
       metrics |-> {c.metrics : c \in {x \in current : x.dbid = d}}] :
      d \in {c.dbid : c \in current} }

CoalescedWaits(current) ==
    { [dbid |-> k.dbid, event_type |-> k.event_type, event |-> k.event,
       coalesce_range |->
           <<Min({c.record.ts : c \in {x \in current :
                                         /\ x.dbid = k.dbid
                                         /\ x.event_type = k.event_type
                                         /\ x.event = k.event}}),
             Max({c.record.ts : c \in {x \in current :
                                         /\ x.dbid = k.dbid
                                         /\ x.event_type = k.event_type
                                         /\ x.event = k.event}})>>,
       records |-> {c.record : c \in {x \in current :
                                        /\ x.dbid = k.dbid
                                        /\ x.event_type = k.event_type
                                        /\ x.event = k.event}}] :
      k \in {[dbid |-> c.dbid, event_type |-> c.event_type, event |-> c.event] :
               c \in current} }

\* One snapshot round at ts = now + 1: a row per database in the current
\* tier, the pg_stat_kcache rows only when with_kcache; when coalesce, the
\* current tier is moved into the history tier at the end of the round
SnapshotRound(snap, with_kcache, coalesce) ==
    LET ts == now + 1
        dbs == {d \in powa_databases : snap[d] # NoSnapshot}
        statements == powa_statements_history_current_db \cup
            {[dbid |-> d, record |-> [ts |-> ts] @@ snap[d].stat] : d \in dbs}
        kcache == powa_kcache_metrics_current_db \cup
            {[dbid |-> d, metrics |-> [ts |-> ts] @@ snap[d].kcache] :
               d \in {x \in dbs : with_kcache}}
        waits == powa_wait_sampling_history_current_db \cup
            UNION {{[dbid |-> d, event_type |-> w.event_type, event |-> w.event,
                     record |-> [ts |-> ts, count |-> w.count]] :
                    w \in snap[d].wait} : d \in dbs}
    IN /\ res = NoResult
       /\ now < MaxTs
       /\ now' = ts
       /\ IF coalesce
          THEN /\ powa_statements_history_db' =
                     powa_statements_history_db \cup CoalescedStatements(statements)
               /\ powa_statements_history_current_db' = {}
               /\ powa_kcache_metrics_db' =
                     powa_kcache_metrics_db \cup CoalescedKcache(kcache)
               /\ powa_kcache_metrics_current_db' = {}
               /\ powa_wait_sampling_history_db' =
                     powa_wait_sampling_history_db \cup CoalescedWaits(waits)
               /\ powa_wait_sampling_history_current_db' = {}
          ELSE /\ powa_statements_history_current_db' = statements
               /\ powa_kcache_metrics_current_db' = kcache
               /\ powa_wait_sampling_history_current_db' = waits
               /\ UNCHANGED <<powa_statements_history_db, powa_kcache_metrics_db,
                              powa_wait_sampling_history_db>>
       /\ UNCHANGED <<extensions, res, part, cls_metrics, self_dashboard>>

\* The round of a server whose extensions are all sampled, coalesced every
\* CoalesceEvery rounds
TakeSnapshot(snap) ==
    SnapshotRound(snap, TRUE, (now + 1) % CoalesceEvery = 0)

CreateExtension(extname) ==
    /\ res = NoResult
    /\ extname \notin extensions
    /\ extensions' = extensions \cup {extname}
    /\ UNCHANGED <<tables, res, part, cls_metrics, self_dashboard>>

DropExtension(extname) ==
    /\ res = NoResult
    /\ extname \in extensions
    /\ extensions' = extensions \ {extname}
    /\ UNCHANGED <<tables, res, part, cls_metrics, self_dashboard>>

-----------------------------------------------------------------------------
(* The requests *)

\* GlobalDatabasesMetricGroup._get_metrics / DatabaseOverviewMetricGroup._get_metrics
GetMetrics(group) ==
    /\ res = NoResult
    /\ res' = [op |-> "_get_metrics", group |-> group,
               kcache |-> has_extension("pg_stat_kcache"),
               metrics |-> get_metrics(cls_metrics[group],
                                       has_extension("pg_stat_kcache"))]
    /\ cls_metrics' =
          [cls_metrics EXCEPT
             ![group] = metrics_copy(@, has_extension("pg_stat_kcache"))]
    /\ UNCHANGED <<tables, extensions, part, self_dashboard>>

\* GlobalDatabasesMetricGroup.query, run for the window [from, to]
GlobalDatabasesMetricGroup_query(from, to, samples) ==
    /\ res = NoResult
    /\ IF tstzrange(from, to) # ""
       THEN res' = [op |-> "all_databases", dbs |-> powa_databases,
                    from |-> from, to |-> to, samples |-> samples,
                    error |-> tstzrange(from, to)]
       ELSE
       \E merged \in {has_extension("pg_stat_kcache")} :
       \E query \in {powa_getstatdata_sample(powa_databases, from, to, samples)} :
       \E kcache_query \in
              {IF merged
               THEN kcache_getstatdata_sample(powa_databases, from, to, samples)
               ELSE {}} :
       \E rows \in SeriesSelect(query, kcache_query, merged) :
          res' = [op |-> "all_databases", dbs |-> powa_databases, error |-> "",
                  kcache |-> merged, columns |-> QueryColumns(merged),
                  from |-> from, to |-> to, samples |-> samples,
                  query |-> query, kcache_query |-> kcache_query,
                  rows |-> rows]
    /\ UNCHANGED <<tables, extensions, part, cls_metrics, self_dashboard>>

\* DatabaseOverviewMetricGroup.query for one database
DatabaseOverviewMetricGroup_query(database, from, to, samples) ==
    /\ res = NoResult
    /\ IF tstzrange(from, to) # ""
       THEN res' = [op |-> "database_overview", dbs |-> {database},
                    from |-> from, to |-> to, samples |-> samples,
                    error |-> tstzrange(from, to)]
       ELSE
       \E merged \in {has_extension("pg_stat_kcache")} :
       \E query \in {powa_getstatdata_sample({database}, from, to, samples)} :
       \E kcache_query \in
              {IF merged
               THEN kcache_getstatdata_sample({database}, from, to, samples)
               ELSE {}} :
       \E rows \in SeriesSelect(query, kcache_query, merged) :
          res' = [op |-> "database_overview", dbs |-> {database}, error |-> "",
                  kcache |-> merged, columns |-> QueryColumns(merged),
                  from |-> from, to |-> to, samples |-> samples,
                  query |-> query, kcache_query |-> kcache_query,
                  rows |-> rows]
    /\ UNCHANGED <<tables, extensions, part, cls_metrics, self_dashboard>>

\* GlobalWaitsMetricGroup.query; pg_version_num is what get_pg_version_num
\* answers this request
GlobalWaitsMetricGroup_query(from, to, samples, pg_version_num) ==
    /\ res = NoResult
    /\ IF tstzrange(from, to) # ""
       THEN res' = [op |-> "all_databases_waits", dbs |-> powa_databases,
                    pg_version_num |-> pg_version_num,
                    from |-> from, to |-> to, samples |-> samples,
                    error |-> tstzrange(from, to)]
       ELSE
       \E cols \in {GlobalWaitsColumns(pg_version_num)} :
       \E query \in {powa_getwaitdata_sample(powa_databases, from, to, samples)} :
       \E rows \in GlobalWaitsSelect(query, cols) :
          res' = [op |-> "all_databases_waits", dbs |-> powa_databases,
                  pg_version_num |-> pg_version_num, error |-> "", columns |-> {"ts"} \cup cols,
                  from |-> from, to |-> to, samples |-> samples,
                  query |-> query, rows |-> rows]
    /\ UNCHANGED <<tables, extensions, part, cls_metrics, self_dashboard>>

\* DatabaseWaitOverviewMetricGroup.query for one database
DatabaseWaitOverviewMetricGroup_query(database, from, to, samples, pg_version_num) ==
    /\ res = NoResult
    /\ \E branch \in DatabaseWaitsColumns(pg_version_num) :
          IF branch.error # ""
          THEN res' = [op |-> "database_waits_overview", dbs |-> {database},
                       pg_version_num |-> pg_version_num, error |-> branch.error]
          ELSE IF tstzrange(from, to) # ""
          THEN res' = [op |-> "database_waits_overview", dbs |-> {database},
                       pg_version_num |-> pg_version_num,
                       from |-> from, to |-> to, samples |-> samples,
                       error |-> tstzrange(from, to)]
          ELSE \E query \in {powa_getwaitdata_sample({database}, from, to, samples)} :
               \E rows \in DatabaseWaitsSelect(query, branch.cols) :
                  res' = [op |-> "database_waits_overview", dbs |-> {database},
                          pg_version_num |-> pg_version_num, error |-> "",
                          columns |-> {"ts"} \cup branch.cols,
                          from |-> from, to |-> to, samples |-> samples,
                          query |-> query, rows |-> rows]
    /\ UNCHANGED <<tables, extensions, part, cls_metrics, self_dashboard>>

\* Variant of prepare that raises nothing
prepareNeverRaises == ""

\* GlobalWaitsMetricGroup.prepare: the error it raises, "" when none
GlobalWaitsMetricGroup_prepare ==
    IF ~has_extension("pg_wait_sampling") THEN "HTTPError 501" ELSE ""

\* DatabaseWaitOverviewMetricGroup.prepare
DatabaseWaitOverviewMetricGroup_prepare ==
    IF ~has_extension("pg_wait_sampling") THEN "HTTPError 501" ELSE ""

\* A request of all_databases_waits: prepare, then the query when prepare
\* raised nothing
GlobalWaitsMetricGroup_get(from, to, samples, pg_version_num) ==
    IF GlobalWaitsMetricGroup_prepare # ""
    THEN /\ res = NoResult
         /\ res' = [op |-> "all_databases_waits", dbs |-> powa_databases,
                    pg_version_num |-> pg_version_num,
                    error |-> GlobalWaitsMetricGroup_prepare]
         /\ UNCHANGED <<tables, extensions, part, cls_metrics, self_dashboard>>
    ELSE GlobalWaitsMetricGroup_query(from, to, samples, pg_version_num)

\* A request of database_waits_overview
DatabaseWaitOverviewMetricGroup_get(database, from, to, samples, pg_version_num) ==
    IF DatabaseWaitOverviewMetricGroup_prepare # ""
    THEN /\ res = NoResult
         /\ res' = [op |-> "database_waits_overview", dbs |-> {database},
                    pg_version_num |-> pg_version_num,
                    error |-> DatabaseWaitOverviewMetricGroup_prepare]
         /\ UNCHANGED <<tables, extensions, part, cls_metrics, self_dashboard>>
    ELSE DatabaseWaitOverviewMetricGroup_query(database, from, to, samples,
                                               pg_version_num)

\* The reply is handed to the caller; nothing of it is kept
Reply ==
    /\ res # NoResult
    /\ "pc" \in DOMAIN res => res.pc = "done"
    /\ res' = NoResult
    /\ UNCHANGED <<tables, extensions, part, cls_metrics, self_dashboard>>

Froms == {1, 2}

Next ==
    \/ \E snap \in SnapshotRounds : TakeSnapshot(snap)
    \/ CreateExtension("pg_stat_kcache")
    \/ DropExtension("pg_stat_kcache")
    \/ \E group \in {"all_databases", "database_overview"} : GetMetrics(group)
    \/ Reply
    \/ \E from \in Froms, samples \in SampleBudgets :
          GlobalDatabasesMetricGroup_query(from, now, samples)
    \/ \E d \in powa_databases, from \in Froms, samples \in SampleBudgets :
          DatabaseOverviewMetricGroup_query(d, from, now, samples)
    \/ \E from \in Froms, samples \in SampleBudgets, v \in Versions :
          GlobalWaitsMetricGroup_get(from, now, samples, v)
    \/ \E d \in powa_databases, from \in Froms, samples \in SampleBudgets,
          v \in Versions :
          DatabaseWaitOverviewMetricGroup_get(d, from, now, samples, v)

Spec == Init /\ [][Next]_vars

-----------------------------------------------------------------------------
(* The sampler alone, on partitions of up to MaxTotal snapshots *)

\* The WHERE of the sampler applied to a partition of `total` snapshots, one
\* per second
SamplePartition(total, samples) ==
    /\ part = NoResult
    /\ part' = [op |-> "sample", total |-> total, samples |-> samples,
                stride |-> Stride(total, samples),
                kept |-> {r.number :
                            r \in SampleRows([n \in 1..total |-> [ts |-> n]],
                                             samples)}]
    /\ UNCHANGED <<tables, extensions, res, cls_metrics, self_dashboard>>

ForgetPartition ==
    /\ part # NoResult
    /\ part' = NoResult
    /\ UNCHANGED <<tables, extensions, res, cls_metrics, self_dashboard>>

NextSampler ==
    \/ \E total \in 0..MaxTotal, samples \in SampleBudgets :
          SamplePartition(total, samples)
    \/ ForgetPartition

SpecSampler == Init /\ [][NextSampler]_vars

-----------------------------------------------------------------------------
(* A repository filled by a snapshot worker that samples pg_stat_kcache only
   while it is installed, and that coalesces in two steps: the current tier
   is first copied into the history tier and purged afterwards *)

\* The rounds of a server that holds the database 1 alone
OneDatabaseRounds == {snap \in SnapshotRounds : snap[2] = NoSnapshot}

\* The current tier is copied into the history tier and not purged yet
Copied ==
    /\ powa_statements_history_current_db # {}
    /\ \A c \in powa_statements_history_current_db :
          \E h \in powa_statements_history_db :
             h.dbid = c.dbid /\ c.record \in h.records

TakeSnapshotCollected(snap) ==
    /\ ~Copied
    /\ SnapshotRound(snap, has_extension("pg_stat_kcache"), FALSE)

CoalesceCopy ==
    /\ res = NoResult
    /\ powa_statements_history_current_db # {}
    /\ ~Copied
    /\ powa_statements_history_db' =
          powa_statements_history_db
          \cup CoalescedStatements(powa_statements_history_current_db)
    /\ powa_kcache_metrics_db' =
          powa_kcache_metrics_db
          \cup CoalescedKcache(powa_kcache_metrics_current_db)
    /\ powa_wait_sampling_history_db' =
          powa_wait_sampling_history_db
          \cup CoalescedWaits(powa_wait_sampling_history_current_db)
    /\ UNCHANGED <<now, powa_statements_history_current_db,
                   powa_kcache_metrics_current_db,
                   powa_wait_sampling_history_current_db,
                   extensions, res, part, cls_metrics, self_dashboard>>

PurgeCurrent ==
    /\ res = NoResult
    /\ Copied
    /\ powa_statements_history_current_db' = {}
    /\ powa_kcache_metrics_current_db' = {}
    /\ powa_wait_sampling_history_current_db' = {}
    /\ UNCHANGED <<now, powa_statements_history_db, powa_kcache_metrics_db,
                   powa_wait_sampling_history_db, extensions, res, part,
                   cls_metrics, self_dashboard>>

NextArchiver ==
    \/ \E snap \in OneDatabaseRounds : TakeSnapshotCollected(snap)
    \/ CoalesceCopy
    \/ PurgeCurrent
    \/ CreateExtension("pg_stat_kcache")
    \/ DropExtension("pg_stat_kcache")
    \/ \E from \in Froms : GlobalDatabasesMetricGroup_query(from, now, SAMPLES)
    \/ \E from \in Froms : DatabaseOverviewMetricGroup_query(1, from, now, SAMPLES)
    \/ Reply

SpecArchiver == Init /\ [][NextArchiver]_vars

-----------------------------------------------------------------------------
(* The statements of each database.  The repository keeps the counters per
   statement next to the counters per database; the rows per statement are
   read off the rows per database, a counter of a database being the sum of
   the counters of its two statements. *)

Queries == {1, 2}

powa_statements ==
    {[queryid |-> q, dbid |-> d, userid |-> 10] :
       q \in Queries, d \in powa_databases}

\* The share of statement q in the value x of a counter of its database:
\* statement 1 has a quarter of the calls and of the blocks and three
\* quarters of the time
Share(var, x, q) ==
    IF (q = 1) = (var # "total_time") THEN x \div 4 ELSE x - x \div 4

StatementRecord(r, q) ==
    [ts |-> r.ts] @@ [var \in StatCounters |-> Share(var, r[var], q)]

powa_statements_history ==
    {[dbid |-> h.dbid, queryid |-> q, userid |-> 10,
      coalesce_range |-> h.coalesce_range,
      records |-> {StatementRecord(r, q) : r \in h.records}] :
       h \in powa_statements_history_db, q \in Queries}

powa_statements_history_current ==
    {[dbid |-> c.dbid, queryid |-> q, userid |-> 10,
      record |-> StatementRecord(c.record, q)] :
       c \in powa_statements_history_current_db, q \in Queries}

\* Statement 1 has half of the events, rounded down
WaitRecord(r, q) ==
    [ts |-> r.ts,
     count |-> IF q = 1 THEN r.count \div 2 ELSE r.count - r.count \div 2]

powa_wait_sampling_history ==
    {[dbid |-> h.dbid, queryid |-> q, event_type |-> h.event_type,
      event |-> h.event, coalesce_range |-> h.coalesce_range,
      records |-> {WaitRecord(r, q) : r \in h.records}] :
       h \in powa_wait_sampling_history_db, q \in Queries}

powa_wait_sampling_history_current ==
    {[dbid |-> c.dbid, queryid |-> q, event_type |-> c.event_type,
      event |-> c.event, record |-> WaitRecord(c.record, q)] :
       c \in powa_wait_sampling_history_current_db, q \in Queries}

-----------------------------------------------------------------------------
(* The views of the grids *)

\* diff(var) of powa.sql.utils: max(var) - min(var) over the rows of a group
diff(rows, var) == Max({r[var] : r \in rows}) - Min({r[var] : r \in rows})

RECURSIVE Total(_, _)
\* sum(var) over rows that hold no NULL
Total(rows, var) ==
    IF rows = {} THEN 0
    ELSE LET r == CHOOSE x \in rows : TRUE
         IN r[var] + Total(rows \ {r}, var)

RECURSIVE AllOrderByAsc(_, _)
\* Variant of the ordering: ascending
AllOrderByAsc(S, var) ==
    IF S = {} THEN {<<>>}
    ELSE UNION { { <<m>> \o t : t \in AllOrderByAsc(S \ {m}, var) } :
                 m \in {x \in S : \A y \in S : x[var] <= y[var]} }

RECURSIVE AllOrderByDesc(_, _)
\* Every sequence ORDER BY var DESC may return for the rows S
AllOrderByDesc(S, var) ==
    IF S = {} THEN {<<>>}
    ELSE UNION { { <<m>> \o t : t \in AllOrderByDesc(S \ {m}, var) } :
                 m \in {x \in S : \A y \in S : x[var] >= y[var]} }

\* coalesce_range @> bound, bound being min_ts or max_ts of the LEFT JOIN
\* (NULL when no range of the database overlaps the window)
RangeHolds(range, bound) ==
    bound # NULL /\ range[1] <= bound[1] /\ bound[1] <= range[2]

\* powa_base_statdata_db, the rows h of the database d
powa_base_statdata_db(d, from, to) ==
    LET ranges == {h \in powa_statements_history_db :
                     /\ RangeOverlaps(h.coalesce_range, from, to)
                     /\ h.dbid = d}
        min_ts == IF ranges = {} THEN NULL
                  ELSE <<Min({h.coalesce_range[1] : h \in ranges})>>
        max_ts == IF ranges = {} THEN NULL
                  ELSE <<Max({h.coalesce_range[2] : h \in ranges})>>
        unnested(src, bound) ==
            UNION { { [src |-> src, dbid |-> d] @@ r :
                        r \in {x \in psh.records : RangeContains(from, to, x.ts)} } :
                    psh \in {h \in powa_statements_history_db :
                               /\ RangeHolds(h.coalesce_range, bound)
                               /\ h.dbid = d} }
    IN unnested("unnested1", min_ts)
       \cup unnested("unnested2", max_ts)
       \cup { [src |-> "current", dbid |-> d] @@ dbc.record :
                dbc \in {x \in powa_statements_history_current_db :
                           /\ RangeContains(from, to, x.record.ts)
                           /\ x.dbid = d} }

\* powa_base_statdata_detailed_db, the rows h of the database d
powa_base_statdata_detailed_db(d, from, to) ==
    UNION { { [src |-> "history", dbid |-> psh.dbid, userid |-> psh.userid,
               queryid |-> psh.queryid] @@ r :
                r \in {x \in psh.records : RangeContains(from, to, x.ts)} } :
            psh \in {h \in powa_statements_history :
                       /\ RangeOverlaps(h.coalesce_range, from, to)
                       /\ h.dbid = d
                       /\ h.queryid \in {ps.queryid :
                             ps \in {x \in powa_statements : x.dbid = d}}} }
    \cup
    { [src |-> "current", dbid |-> psc.dbid, userid |-> psc.userid,
       queryid |-> psc.queryid] @@ psc.record :
        psc \in {x \in powa_statements_history_current :
                   /\ RangeContains(from, to, x.record.ts)
                   /\ x.dbid = d
                   /\ x.queryid \in {ps.queryid :
                         ps \in {y \in powa_statements : y.dbid = d}}} }

\* get_diffs_forstatdata, on the rows of one group
get_diffs_forstatdata(rows) ==
    [calls |-> diff(rows, "calls"),
     runtime |-> diff(rows, "total_time"),
     shared_blks_read |-> diff(rows, "shared_blks_read"),
     shared_blks_hit |-> diff(rows, "shared_blks_hit")]

\* Variant of powa_getstatdata_db without the HAVING clause
powa_getstatdata_dbNoHaving(from, to) ==
    UNION { { [dbid |-> d] @@ get_diffs_forstatdata(rows) :
              rows \in {x \in {powa_base_statdata_db(d, from, to)} : x # {}} } :
            d \in powa_databases }

\* powa_getstatdata_db: GROUP BY srvid, dbid
\* HAVING max(calls) - min(calls) > 0
powa_getstatdata_db(from, to) ==
    UNION { { [dbid |-> d] @@ get_diffs_forstatdata(rows) :
              rows \in {x \in {powa_base_statdata_db(d, from, to)} :
                          x # {} /\ diff(x, "calls") > 0} } :
            d \in powa_databases }

\* powa_getstatdata_detailed_db: GROUP BY srvid, queryid, dbid, userid,
\* datname HAVING max(calls) - min(calls) > 0
powa_getstatdata_detailed_db(from, to) ==
    UNION { UNION { { k @@ get_diffs_forstatdata(rows) :
                      rows \in {x \in {{r \in base : /\ r.queryid = k.queryid
                                                     /\ r.userid = k.userid}} :
                                  diff(x, "calls") > 0} } :
                    k \in {[dbid |-> r.dbid, queryid |-> r.queryid,
                            userid |-> r.userid] : r \in base} } :
            base \in {powa_base_statdata_detailed_db(d, from, to) :
                        d \in powa_databases} }

\* powa_base_waitdata_db, the rows h of the database d
powa_base_waitdata_db(d, from, to) ==
    LET ranges == {h \in powa_wait_sampling_history_db :
                     /\ RangeOverlaps(h.coalesce_range, from, to)
                     /\ h.dbid = d}
        min_ts == IF ranges = {} THEN NULL
                  ELSE <<Min({h.coalesce_range[1] : h \in ranges})>>
        max_ts == IF ranges = {} THEN NULL
                  ELSE <<Max({h.coalesce_range[2] : h \in ranges})>>
        unnested(src, bound) ==
            UNION { { [src |-> src, dbid |-> d, event_type |-> wsh.event_type,
                       event |-> wsh.event] @@ r :
                        r \in {x \in wsh.records : RangeContains(from, to, x.ts)} } :
                    wsh \in {h \in powa_wait_sampling_history_db :
                               /\ RangeHolds(h.coalesce_range, bound)
                               /\ h.dbid = d} }
    IN unnested("unnested1", min_ts)
       \cup unnested("unnested2", max_ts)
       \cup { [src |-> "current", dbid |-> d, event_type |-> wsc.event_type,
               event |-> wsc.event] @@ wsc.record :
                wsc \in {x \in powa_wait_sampling_history_current_db :
                           /\ RangeContains(from, to, x.record.ts)
                           /\ x.dbid = d} }

\* powa_base_waitdata_detailed_db, the rows h of the database d
powa_base_waitdata_detailed_db(d, from, to) ==
    UNION { { [src |-> "history", dbid |-> wsh.dbid, queryid |-> wsh.queryid,
               event_type |-> wsh.event_type, event |-> wsh.event] @@ r :
                r \in {x \in wsh.records : RangeContains(from, to, x.ts)} } :
            wsh \in {h \in powa_wait_sampling_history :
                       /\ RangeOverlaps(h.coalesce_range, from, to)
                       /\ h.dbid = d
                       /\ h.queryid \in {ps.queryid :
                             ps \in {x \in powa_statements : x.dbid = d}}} }
    \cup
    { [src |-> "current", dbid |-> wsc.dbid, queryid |-> wsc.queryid,
       event_type |-> wsc.event_type, event |-> wsc.event] @@ wsc.record :
        wsc \in {x \in powa_wait_sampling_history_current :
                   /\ RangeContains(from, to, x.record.ts)
                   /\ x.dbid = d
                   /\ x.queryid \in {ps.queryid :
                         ps \in {y \in powa_statements : y.dbid = d}}} }

\* powa_getwaitdata_db: GROUP BY srvid, dbid, event_type, event
\* HAVING max(count) - min(count) > 0
powa_getwaitdata_db(from, to) ==
    UNION { UNION { { k @@ [count |-> diff(rows, "count")] :
                      rows \in {x \in {{r \in base :
                                          /\ r.event_type = k.event_type
                                          /\ r.event = k.event}} :
                                  diff(x, "count") > 0} } :
                    k \in {[dbid |-> r.dbid, event_type |-> r.event_type,
                            event |-> r.event] : r \in base} } :
            base \in {powa_base_waitdata_db(d, from, to) : d \in powa_databases} }

\* powa_getwaitdata_detailed_db: GROUP BY srvid, queryid, dbid, datname,
\* event_type, event HAVING max(count) - min(count) > 0
powa_getwaitdata_detailed_db(from, to) ==
    UNION { UNION { { k @@ [count |-> diff(rows, "count")] :
                      rows \in {x \in {{r \in base :
                                          /\ r.queryid = k.queryid
                                          /\ r.event_type = k.event_type
                                          /\ r.event = k.event}} :
                                  diff(x, "count") > 0} } :
                    k \in {[dbid |-> r.dbid, queryid |-> r.queryid,
                            event_type |-> r.event_type, event |-> r.event] :
                             r \in base} } :
            base \in {powa_base_waitdata_detailed_db(d, from, to) :
                        d \in powa_databases} }

-----------------------------------------------------------------------------
(* The metric groups of the grids *)

\* ByDatabaseMetricGroup.query: the join to powa_databases and
\* GROUP BY srvid, datname
ByDatabaseRows(inner_query) ==
    { [datname |-> d,
       calls |-> Total({c \in inner_query : c.dbid = d}, "calls"),
       runtime |-> Total({c \in inner_query : c.dbid = d}, "runtime"),
       shared_blks_read |->
           Total({c \in inner_query : c.dbid = d}, "shared_blks_read") * block_size,
       shared_blks_hit |->
           Total({c \in inner_query : c.dbid = d}, "shared_blks_hit") * block_size] :
      d \in {c.dbid : c \in inner_query} \cap powa_databases }

\* ByDatabaseMetricGroup.query: ORDER BY sum(calls) DESC
ByDatabaseMetricGroup_query(from, to) ==
    /\ res = NoResult
    /\ IF tstzrange(from, to) # ""
       THEN res' = [op |-> "by_database", dbs |-> powa_databases,
                    from |-> from, to |-> to, error |-> tstzrange(from, to)]
       ELSE
       \E inner_query \in {powa_getstatdata_db(from, to)} :
       \E rows \in AllOrderByDesc(ByDatabaseRows(inner_query), "calls") :
          res' = [op |-> "by_database", dbs |-> powa_databases, error |-> "",
                  from |-> from, to |-> to,
                  base |-> UNION {powa_base_statdata_db(d, from, to) :
                                    d \in powa_databases},
                  inner_query |-> inner_query, rows |-> rows]
    /\ UNCHANGED <<tables, extensions, part, cls_metrics, self_dashboard>>

\* ByQueryMetricGroup.query: the join to powa_statements on queryid, userid
\* and dbid, WHERE datname = :database, GROUP BY srvid, queryid, query
ByQueryRows(inner_query, database) ==
    LET from_clause ==
            {j \in {[c |-> c, ps |-> ps] : c \in inner_query, ps \in powa_statements} :
               /\ j.ps.queryid = j.c.queryid
               /\ j.ps.userid = j.c.userid
               /\ j.ps.dbid = j.c.dbid
               /\ j.c.dbid = database}
    IN { [queryid |-> q,
          calls |-> SumJoined({j \in from_clause : j.c.queryid = q}, "c", "calls"),
          runtime |-> SumJoined({j \in from_clause : j.c.queryid = q}, "c", "runtime"),
          shared_blks_read |->
              SumJoined({j \in from_clause : j.c.queryid = q}, "c",
                        "shared_blks_read") * block_size,
          shared_blks_hit |->
              SumJoined({j \in from_clause : j.c.queryid = q}, "c",
                        "shared_blks_hit") * block_size] :
         q \in {j.c.queryid : j \in from_clause} }

\* ByQueryMetricGroup.query: ORDER BY sum(runtime) DESC
ByQueryMetricGroup_query(database, from, to) ==
    /\ res = NoResult
    /\ IF tstzrange(from, to) # ""
       THEN res' = [op |-> "all_queries", dbs |-> {database},
                    from |-> from, to |-> to, error |-> tstzrange(from, to)]
       ELSE
       \E inner_query \in {powa_getstatdata_detailed_db(from, to)} :
       \E rows \in AllOrderByDesc(ByQueryRows(inner_query, database), "runtime") :
          res' = [op |-> "all_queries", dbs |-> {database}, error |-> "",
                  from |-> from, to |-> to,
                  base |-> powa_base_statdata_detailed_db(database, from, to),
                  inner_query |-> inner_query, rows |-> rows]
    /\ UNCHANGED <<tables, extensions, part, cls_metrics, self_dashboard>>

\* ByDatabaseWaitSamplingMetricGroup.query: the join to powa_databases and
\* GROUP BY srvid, datname, event_type, event
ByDatabaseWaitRows(inner_query) ==
    { [datname |-> k.dbid, event_type |-> k.event_type, event |-> k.event,
       counts |-> Total({c \in inner_query : /\ c.dbid = k.dbid
                                             /\ c.event_type = k.event_type
                                             /\ c.event = k.event}, "count")] :
      k \in {[dbid |-> c.dbid, event_type |-> c.event_type, event |-> c.event] :
               c \in {x \in inner_query : x.dbid \in powa_databases}} }

\* ByDatabaseWaitSamplingMetricGroup.query: ORDER BY sum(count) DESC
ByDatabaseWaitSamplingMetricGroup_query(from, to) ==
    /\ res = NoResult
    /\ IF tstzrange(from, to) # ""
       THEN res' = [op |-> "by_database_waits", dbs |-> powa_databases,
                    from |-> from, to |-> to, error |-> tstzrange(from, to)]
       ELSE
       \E inner_query \in {powa_getwaitdata_db(from, to)} :
       \E rows \in AllOrderByDesc(ByDatabaseWaitRows(inner_query), "counts") :
          res' = [op |-> "by_database_waits", dbs |-> powa_databases,
                  error |-> "", from |-> from, to |-> to,
                  base |-> UNION {powa_base_waitdata_db(d, from, to) :
                                    d \in powa_databases},
                  inner_query |-> inner_query, rows |-> rows]
    /\ UNCHANGED <<tables, extensions, part, cls_metrics, self_dashboard>>

\* ByQueryWaitSamplingMetricGroup.query: the join to powa_statements on
\* queryid and dbid, WHERE datname = :database,
\* GROUP BY srvid, queryid, query, event_type, event
ByQueryWaitRows(inner_query, database) ==
    LET from_clause ==
            {j \in {[c |-> c, ps |-> ps] : c \in inner_query, ps \in powa_statements} :
               /\ j.ps.queryid = j.c.queryid
               /\ j.ps.dbid = j.c.dbid
               /\ j.c.dbid = database}
    IN { [queryid |-> k.queryid, event_type |-> k.event_type, event |-> k.event,
          counts |-> SumJoined({j \in from_clause :
                                  /\ j.c.queryid = k.queryid
                                  /\ j.c.event_type = k.event_type
                                  /\ j.c.event = k.event}, "c", "count")] :
         k \in {[queryid |-> j.c.queryid, event_type |-> j.c.event_type,
                 event |-> j.c.event] : j \in from_clause} }

\* ByQueryWaitSamplingMetricGroup.query: ORDER BY sum(count) DESC
ByQueryWaitSamplingMetricGroup_query(database, from, to) ==
    /\ res = NoResult
    /\ IF tstzrange(from, to) # ""
       THEN res' = [op |-> "all_queries_waits", dbs |-> {database},
                    from |-> from, to |-> to, error |-> tstzrange(from, to)]
       ELSE
       \E inner_query \in {powa_getwaitdata_detailed_db(from, to)} :
       \E rows \in AllOrderByDesc(ByQueryWaitRows(inner_query, database), "counts") :
          res' = [op |-> "all_queries_waits", dbs |-> {database},
                  error |-> "", from |-> from, to |-> to,
                  base |-> powa_base_waitdata_detailed_db(database, from, to),
                  inner_query |-> inner_query, rows |-> rows]
    /\ UNCHANGED <<tables, extensions, part, cls_metrics, self_dashboard>>

-----------------------------------------------------------------------------
(* Series and grids over the windows of a server whose two databases are
   there from the first round on and whose statistics are never reset *)

\* What a snapshot round of this server may hold: the values of SnapVals and
\* a third, later one
WindowVals ==
    SnapVals \cup
    { [stat   |-> [calls |-> 130, total_time |-> 200,
                   shared_blks_read |-> 7, shared_blks_hit |-> 9],
       kcache |-> [reads |-> 24576, minflts |-> 9, majflts |-> 3,
                   nvcsws |-> 8, nivcsws |-> 5],
       wait   |-> { [event_type |-> "Lock", event |-> "relation", count |-> 10],
                    [event_type |-> "Lock", event |-> "tuple", count |-> 5],
                    [event_type |-> "IO", event |-> "DataFileRead",
                     count |-> 4] }] }

WindowRounds ==
    {snap \in [powa_databases -> WindowVals] :
       \A d \in powa_databases :
          \A r \in StoredRecords(d) : r.calls <= snap[d].stat.calls}

\* The windows asked for: up to the last round or to the round before, from
\* one of Froms (among them windows with to < from), and the window after
\* the last round
Windows ==
    {<<from, to>> : from \in Froms, to \in {now - 1, now}}
    \cup {<<now + 1, now + 1>>}

\* The budgets of the database overview: the one of the code, and none
WindowBudgets == {0, SAMPLES}

NextWindows ==
    \/ \E snap \in WindowRounds : TakeSnapshot(snap)
    \/ \E w \in Windows : GlobalDatabasesMetricGroup_query(w[1], w[2], SAMPLES)
    \/ \E w \in Windows, d \in powa_databases, samples \in WindowBudgets :
          DatabaseOverviewMetricGroup_query(d, w[1], w[2], samples)
    \/ \E w \in Windows :
          GlobalWaitsMetricGroup_get(w[1], w[2], SAMPLES, <<100000>>)
    \/ \E w \in Windows, d \in powa_databases :
          DatabaseWaitOverviewMetricGroup_get(d, w[1], w[2], SAMPLES, <<100000>>)
    \/ \E w \in Windows : ByDatabaseMetricGroup_query(w[1], w[2])
    \/ \E w \in Windows, d \in powa_databases :
          ByQueryMetricGroup_query(d, w[1], w[2])
    \/ \E w \in Windows : ByDatabaseWaitSamplingMetricGroup_query(w[1], w[2])
    \/ \E w \in Windows, d \in powa_databases :
          ByQueryWaitSamplingMetricGroup_query(d, w[1], w[2])
    \/ Reply

SpecWindows == Init /\ [][NextWindows]_vars

-----------------------------------------------------------------------------
(* ServerOverview.dashboard and DatabaseOverview.dashboard, one step for
   each call of has_extension, on a server whose extensions are created and
   dropped while the dashboard is built *)

Building == "pc" \in DOMAIN res /\ res.pc # "done"

Extensions == {"pg_stat_kcache", "pg_wait_sampling"}

\* The answers of has_extension during a build, with one more
Answered(has, extname) ==
    [has EXCEPT ![extname] = @ \cup {has_extension(extname)}]

\* Variant of the colours: the two of the block graph without pg_stat_kcache
color_schemeOfTwo(has_kcache) == <<"#cb513a", "#73c03a">>

\* block_graph.color_scheme
color_scheme(has_kcache) ==
    IF has_kcache THEN <<"#cb513a", "#65b9ac", "#73c03a">>
    ELSE <<"#cb513a", "#73c03a">>

\* What of a build in progress is the Dashboard object handed back
DashboardOf(r) ==
    [f \in {"tab_container", "graphs_dash", "block_graph", "pg_version_num",
             "metrics", "widgets"} |-> r[f]]

\* Dashboard("Database overview for %(database)s"): no widget yet
EmptyDashboard ==
    [tab_container |-> FALSE, graphs_dash |-> <<>>, block_graph |-> <<>>,
     pg_version_num |-> NULL, metrics |-> {}, widgets |-> <<>>]

\* What dashboard() assigns to self._dashboard before it builds anything:
\* DatabaseOverview the empty Dashboard, ServerOverview nothing
AssignedAtStart(page) ==
    IF page = "DatabaseOverview" THEN <<EmptyDashboard>> ELSE NULL

\* dashboard(), up to the first operand of
\* if has_extension("pg_stat_kcache") or ...: the _dashboard of the instance
\* is returned when there is one; otherwise the page starts with the block
\* graph of total_blks_hit and no tab.
Dashboard_tabs_kcache(page) ==
    /\ res = NoResult
    /\ IF self_dashboard[page] # NULL
       THEN /\ res' = [op |-> page, error |-> "", pc |-> "done",
                       cached |-> TRUE] @@ self_dashboard[page][1]
            /\ UNCHANGED self_dashboard
       ELSE /\ res' = [op |-> page, error |-> "", cached |-> FALSE,
                       pc |-> IF has_extension("pg_stat_kcache")
                              THEN "blocks" ELSE "tabs_waits",
                       tab_container |-> has_extension("pg_stat_kcache"),
                       graphs_dash |-> IF has_extension("pg_stat_kcache")
                                       THEN <<"General Overview">> ELSE <<>>,
                       block_graph |-> <<"total_blks_hit">>,
                       color_scheme |-> NULL,
                       runtime_graph |-> {"avg_runtime", "load", "calls"},
                       sys_graphs |-> {},
                       pg_version_num |-> NULL,
                       metrics |-> {},
                       widgets |-> <<>>,
                       has |-> Answered([e \in Extensions |-> {}],
                                        "pg_stat_kcache")]
            /\ self_dashboard' =
                  [self_dashboard EXCEPT ![page] = AssignedAtStart(page)]
    /\ UNCHANGED <<tables, extensions, part, cls_metrics>>

\* ... or has_extension("pg_wait_sampling"): the second operand, evaluated
\* when the first is false
Dashboard_tabs_waits ==
    /\ Building /\ res.pc = "tabs_waits"
    /\ res' = [res EXCEPT
                 !.pc = "blocks",
                 !.tab_container = has_extension("pg_wait_sampling"),
                 !.graphs_dash = IF has_extension("pg_wait_sampling")
                                 THEN <<"General Overview">> ELSE <<>>,
                 !.has = Answered(@, "pg_wait_sampling")]
    /\ UNCHANGED <<tables, extensions, part, cls_metrics, self_dashboard>>

\* if has_extension("pg_stat_kcache"): the metrics of the block graph and
\* the dashboard "System resources"
Dashboard_blocks ==
    /\ Building /\ res.pc = "blocks"
    /\ res' = [res EXCEPT
                 !.pc = "waits",
                 !.block_graph =
                     IF has_extension("pg_stat_kcache")
                     THEN <<"total_disk_read", "total_sys_hit">> \o @
                     ELSE <<"total_blks_read">> \o @,
                 !.color_scheme = color_scheme(has_extension("pg_stat_kcache")),
                 !.sys_graphs =
                     IF has_extension("pg_stat_kcache")
                     THEN {"majflts", "minflts", "nvcsws", "nivcsws"} ELSE @,
                 !.graphs_dash =
                     IF has_extension("pg_stat_kcache")
                     THEN Append(@, "System resources") ELSE @,
                 !.has = Answered(@, "pg_stat_kcache")]
    /\ UNCHANGED <<tables, extensions, part, cls_metrics, self_dashboard>>

\* if has_extension("pg_wait_sampling"): the dashboard "Wait Events", with
\* the metrics of the version that get_pg_version_num answers
Dashboard_waits(pg_version_num) ==
    /\ Building /\ res.pc = "waits"
    /\ IF ~has_extension("pg_wait_sampling")
       THEN res' = [res EXCEPT !.pc = "grid",
                               !.has = Answered(@, "pg_wait_sampling")]
       ELSE \E branch \in IF res.op = "ServerOverview"
                          THEN {[error |-> "",
                                 cols |-> GlobalWaitsColumns(pg_version_num)]}
                          ELSE DatabaseWaitsColumns(pg_version_num) :
               IF branch.error # ""
               THEN res' = [res EXCEPT !.pc = "done",
                                       !.pg_version_num = pg_version_num,
                                       !.error = branch.error,
                                       !.has = Answered(@, "pg_wait_sampling")]
               ELSE res' = [res EXCEPT
                              !.pc = "grid",
                              !.pg_version_num = pg_version_num,
                              !.metrics = branch.cols,
                              !.graphs_dash = Append(@, "Wait Events"),
                              !.has = Answered(@, "pg_wait_sampling")]
    /\ UNCHANGED <<tables, extensions, part, cls_metrics, self_dashboard>>

\* The widgets: the graphs, the grid, and if has_extension("pg_wait_sampling")
\* the grid of the wait events; DatabaseOverview ends with the wizard.  The
\* dashboard built is the _dashboard of the instance from now on.
Dashboard_grids ==
    /\ Building /\ res.pc = "grid"
    /\ res' = [res EXCEPT
                 !.pc = "done",
                 !.widgets =
                     <<"graphs", "grid">>
                     \o (IF has_extension("pg_wait_sampling")
                         THEN <<"wait_grid">> ELSE <<>>)
                     \o (IF res.op = "DatabaseOverview"
                         THEN <<"wizard">> ELSE <<>>),
                 !.has = Answered(@, "pg_wait_sampling")]
    /\ self_dashboard' =
          [self_dashboard EXCEPT ![res.op] = <<DashboardOf(res')>>]
    /\ UNCHANGED <<tables, extensions, part, cls_metrics>>

\* A later request is served by a new instance of the page
NewInstance(page) ==
    /\ res = NoResult
    /\ self_dashboard[page] # NULL
    /\ self_dashboard' = [self_dashboard EXCEPT ![page] = NULL]
    /\ UNCHANGED <<tables, extensions, part, cls_metrics, res>>

\* An extension is created on the server, or dropped, while a dashboard is
\* built
AlterExtension(extname) ==
    /\ Building
    /\ extensions' = IF extname \in extensions
                     THEN extensions \ {extname}
                     ELSE extensions \cup {extname}
    /\ UNCHANGED <<tables, res, part, cls_metrics, self_dashboard>>

NextDashboard ==
    \/ \E page \in Pages : Dashboard_tabs_kcache(page)
    \/ Dashboard_tabs_waits
    \/ Dashboard_blocks
    \/ \E v \in Versions : Dashboard_waits(v)
    \/ Dashboard_grids
    \/ \E page \in Pages : NewInstance(page)
    \/ \E extname \in Extensions : AlterExtension(extname)
    \/ \E extname \in Extensions : CreateExtension(extname)
    \/ \E extname \in Extensions : DropExtension(extname)
    \/ \E v \in Versions : GlobalWaitsMetricGroup_get(1, 1, SAMPLES, v)
    \/ \E v \in Versions :
          DatabaseWaitOverviewMetricGroup_get(1, 1, 1, SAMPLES, v)
    \/ Reply

SpecDashboard == Init /\ [][NextDashboard]_vars

-----------------------------------------------------------------------------
(* The wait series and the wait grids of a server on which pg_wait_sampling
   is created and dropped *)

NextWaits ==
    \/ \E snap \in OneDatabaseRounds : TakeSnapshot(snap)
    \/ CreateExtension("pg_wait_sampling")
    \/ DropExtension("pg_wait_sampling")
    \/ \E from \in Froms, v \in Versions :
          GlobalWaitsMetricGroup_get(from, now, SAMPLES, v)
    \/ \E from \in Froms, v \in Versions :
          DatabaseWaitOverviewMetricGroup_get(1, from, now, SAMPLES, v)
    \/ \E from \in Froms : ByDatabaseWaitSamplingMetricGroup_query(from, now)
    \/ \E from \in Froms : ByQueryWaitSamplingMetricGroup_query(1, from, now)
    \/ Reply

SpecWaits == Init /\ [][NextWaits]_vars

-----------------------------------------------------------------------------
(* What the stored snapshots say, read without the views *)

StatSeries ==
    /\ res.op \in {"all_databases", "database_overview"}
    /\ res.error = ""

WaitSeries ==
    /\ res.op \in {"all_databases_waits", "database_waits_overview"}
    /\ res.error = ""

\* The stored pg_stat_kcache snapshots of database d, of both tiers
StoredMetrics(d) ==
    UNION {h.metrics : h \in {x \in powa_kcache_metrics_db : x.dbid = d}}
    \cup {c.metrics : c \in {x \in powa_kcache_metrics_current_db : x.dbid = d}}

\* The stored pg_wait_sampling counts of database d, of both tiers
StoredWaits(d) ==
    UNION { {[event_type |-> h.event_type, event |-> h.event, ts |-> r.ts,
              count |-> <<r.count>>] : r \in h.records} :
            h \in {x \in powa_wait_sampling_history_db : x.dbid = d} }
    \cup
    { [event_type |-> c.event_type, event |-> c.event, ts |-> c.record.ts,
       count |-> <<c.record.count>>] :
      c \in {x \in powa_wait_sampling_history_current_db : x.dbid = d} }

\* The cumulative value of a counter of database d at ts
StatValue(d, ts, var) == (CHOOSE r \in StoredRecords(d) : r.ts = ts)[var]

KcacheValue(d, ts, var) == (CHOOSE r \in StoredMetrics(d) : r.ts = ts)[var]

\* NULL when no event of the type of the column was seen at ts
WaitValue(d, ts, col) ==
    sum({w \in StoredWaits(d) : w.ts = ts /\ w.event_type = EventType[col]},
        "count")

\* The output column of the statement sample that holds the delta of a counter
StatColumn ==
    [calls |-> "calls", total_time |-> "runtime",
     shared_blks_read |-> "shared_blks_read", shared_blks_hit |-> "shared_blks_hit"]

Clamp(x) == IF x > 0 THEN x ELSE 0

\* The rows of a sampled series that follow r in its partition, next first:
\* the set holds the successor of r, or nothing
Successor(series, r) ==
    {n \in series :
       /\ n.dbid = r.dbid
       /\ n.ts > r.ts
       /\ ~ \E m \in series : m.dbid = r.dbid /\ r.ts < m.ts /\ m.ts < n.ts}

\* The snapshot timestamps of a partition that lie in the window
InWindow(stored, from, to) == {r.ts : r \in {x \in stored : from <= x.ts /\ x.ts <= to}}

\* 1-based rank of ts in timestamp order within the partition
Rank(partition, ts) == Cardinality({u \in partition : u <= ts})

\* The timestamps a budget of K keeps of a partition, by the rule
\* rank mod max(floor(total / (K+1)), 1) = 0
KeptTs(partition, K) ==
    LET total == Cardinality(partition)
        stride == IF total \div (K + 1) > 1 THEN total \div (K + 1) ELSE 1
    IN {ts \in partition : Rank(partition, ts) % stride = 0}

-----------------------------------------------------------------------------
(* The deltas of the sampled series *)

\* C1: in the statement, kcache and wait samples a request was answered
\* from, every counter column of a row that has a successor in its partition
\* holds max(value at the successor - value at the row, 0), the values being
\* the stored cumulative counters at the two timestamps; it is never
\* negative, and it is 0 when the counter dropped.  A wait count that is NULL
\* at either timestamp (no event of the type seen) has the delta 0.
C1_DeltaIsClampedIncrease ==
    /\ StatSeries =>
         /\ \A r \in res.query : \A n \in Successor(res.query, r) :
              \A var \in StatCounters :
                 /\ r[StatColumn[var]] >= 0
                 /\ r[StatColumn[var]] =
                      Clamp(StatValue(n.dbid, n.ts, var) - StatValue(r.dbid, r.ts, var))
         /\ \A r \in res.kcache_query : \A n \in Successor(res.kcache_query, r) :
              \A var \in KcacheCounters :
                 /\ r[var] >= 0
                 /\ r[var] =
                      Clamp(KcacheValue(n.dbid, n.ts, var) - KcacheValue(r.dbid, r.ts, var))
    /\ WaitSeries =>
         \A r \in res.query : \A n \in Successor(res.query, r) :
            \A col \in WaitCounters :
               LET a == WaitValue(r.dbid, r.ts, col)
                   b == WaitValue(n.dbid, n.ts, col)
               IN /\ r[col] >= 0
                  /\ r[col] = IF a = NULL \/ b = NULL THEN 0 ELSE Clamp(b[1] - a[1])

\* C1 happens: a row of a statement sample whose successor holds a smaller
\* calls counter (a reset), with the delta 0
C1_Witness ==
    /\ StatSeries
    /\ \E r \in res.query : \E n \in Successor(res.query, r) :
          /\ StatValue(n.dbid, n.ts, "calls") < StatValue(r.dbid, r.ts, "calls")
          /\ r.calls = 0

\* C2: (as claimed) a series has one row fewer than the snapshots it was
\* computed from: the database overview, answered without pg_stat_kcache from
\* a window that holds snapshots of the database, returns as many records as
\* the sampler kept snapshots, less one.
C2_LastPointIsDropped ==
    (StatSeries /\ res.op = "database_overview" /\ ~res.kcache) =>
        \A d \in res.dbs :
           LET kept == KeptTs(InWindow(StoredRecords(d), res.from, res.to),
                              res.samples)
           IN kept # {} => Len(res.rows) = Cardinality(kept) - 1

\* C3: (as claimed) the delta of a kept point is the increase to the
\* immediately following raw snapshot of the unsampled partition.
C3_DeltaToNextRawSnapshot ==
    StatSeries =>
        \A r \in res.query :
           LET raw == InWindow(StoredRecords(r.dbid), res.from, res.to)
           IN \A t \in raw :
                 Rank(raw, t) = Rank(raw, r.ts) + 1 =>
                    r.calls = Clamp(StatValue(r.dbid, t, "calls")
                                    - StatValue(r.dbid, r.ts, "calls"))

\* The stride the budget K gives a partition
StrideOf(partition, K) ==
    IF Cardinality(partition) \div (K + 1) > 1
    THEN Cardinality(partition) \div (K + 1) ELSE 1

\* C3 (amended): the sample holds rows for kept snapshots only, and the delta
\* of a kept point is the increase, clamped at 0, to the next kept point of
\* its partition, the snapshot `stride` ranks later; it is the increase to
\* the following raw snapshot only when the stride is 1.
C3_DeltaToNextKeptPoint ==
    StatSeries =>
        \A r \in res.query :
           LET raw == InWindow(StoredRecords(r.dbid), res.from, res.to)
               stride == StrideOf(raw, res.samples)
           IN /\ r.ts \in KeptTs(raw, res.samples)
              /\ \A t \in raw :
                    Rank(raw, t) = Rank(raw, r.ts) + stride =>
                       /\ r.calls = Clamp(StatValue(r.dbid, t, "calls")
                                          - StatValue(r.dbid, r.ts, "calls"))
                       /\ r.mesure_interval = t - r.ts

\* C3 happens: with a stride of 2, a kept point whose delta is the increase
\* to the next kept point while the raw snapshot in between shows none
C3_Witness ==
    /\ StatSeries
    /\ \E r \in res.query :
          LET raw == InWindow(StoredRecords(r.dbid), res.from, res.to)
          IN /\ StrideOf(raw, res.samples) = 2
             /\ \E t \in raw, u \in raw :
                   /\ Rank(raw, t) = Rank(raw, r.ts) + 1
                   /\ Rank(raw, u) = Rank(raw, r.ts) + 2
                   /\ StatValue(r.dbid, t, "calls") = StatValue(r.dbid, r.ts, "calls")
                   /\ r.calls = StatValue(r.dbid, u, "calls")
                                - StatValue(r.dbid, r.ts, "calls")
                   /\ r.calls > 0

-----------------------------------------------------------------------------
(* The sampler *)

\* C4: (as claimed) whatever the snapshot count of a partition, the sampler
\* keeps at most K = 100 of its snapshots.
C4_KeepsAtMostBudget ==
    (part.op = "sample" /\ part.samples = SAMPLES) =>
        Cardinality(part.kept) <= SAMPLES

\* C4 (amended): the sampler keeps at most K snapshots of a partition exactly
\* when the partition holds at most K; of a larger partition it keeps more
\* than K (101 of 101 for K = 100).
C4_WithinBudgetIffSmall ==
    part.op = "sample" =>
        (Cardinality(part.kept) <= part.samples <=> part.total <= part.samples)

\* C4 happens: a partition of K + 1 = 101 snapshots, all 101 kept
C4_Witness ==
    /\ part.op = "sample"
    /\ part.samples = SAMPLES
    /\ part.total = SAMPLES + 1
    /\ Cardinality(part.kept) = SAMPLES + 1

\* C5: of a partition of total <= K snapshots the stride is 1 and every
\* snapshot is kept: the kept ranks are all the ranks 1..total.
C5_SmallPartitionKeptWhole ==
    (part.op = "sample" /\ part.total <= part.samples) =>
        /\ part.stride = 1
        /\ part.kept = 1..part.total

\* C5 happens: a partition of exactly K = 100 snapshots, kept whole
C5_Witness ==
    /\ part.op = "sample"
    /\ part.samples = SAMPLES
    /\ part.total = SAMPLES
    /\ part.kept = 1..SAMPLES

\* C6: the statement, kcache and wait samples hold, for each database, rows
\* for exactly the snapshots of the window whose 1-based rank in timestamp
\* order satisfies rank mod max(floor(total / (K+1)), 1) = 0, total being
\* the snapshot count of that database in the window; the kept timestamps
\* are a function of the stored snapshots, the window and K.
C6_KeptIffRankOnStride ==
    /\ StatSeries =>
         \A d \in res.dbs :
            /\ {r.ts : r \in {x \in res.query : x.dbid = d}} =
                 KeptTs(InWindow(StoredRecords(d), res.from, res.to), res.samples)
            /\ res.kcache =>
                 {r.ts : r \in {x \in res.kcache_query : x.dbid = d}} =
                   KeptTs(InWindow(StoredMetrics(d), res.from, res.to), res.samples)
    /\ WaitSeries =>
         \A d \in res.dbs :
            {r.ts : r \in {x \in res.query : x.dbid = d}} =
              KeptTs(InWindow(StoredWaits(d), res.from, res.to), res.samples)
    /\ \A r \in (IF StatSeries \/ WaitSeries THEN res.query ELSE {}) :
          r.dbid \in res.dbs

\* C6 happens: a wait sample that keeps ranks 2 and 4 of a partition of four
\* snapshots
C6_Witness ==
    /\ WaitSeries
    /\ res.samples = 1
    /\ \E d \in res.dbs :
          /\ InWindow(StoredWaits(d), res.from, res.to) = 1..4
          /\ {r.ts : r \in {x \in res.query : x.dbid = d}} = {2, 4}

-----------------------------------------------------------------------------
(* The records of the series *)

RECURSIVE SumOf(_, _)
SumOf(rows, var) ==
    IF rows = {} THEN 0
    ELSE LET r == CHOOSE x \in rows : TRUE
         IN r[var] + SumOf(rows \ {r}, var)

AtLeastOne(x) == IF x > 1 THEN x ELSE 1

\* The per-second fields of a record of the statement series
PerSecondFields(merged) ==
    {"calls", "load", "total_blks_read", "total_blks_hit"}
    \cup (IF merged
          THEN {"total_sys_hit", "total_disk_read", "minflts", "majflts",
                "nvcsws", "nivcsws"}
          ELSE {})

\* C7: every per-second field of every record (calls, load, the block and
\* kcache rates, the wait counts) is a delta over max(elapsed seconds, 1),
\* the elapsed seconds being the mesure_interval of the sample rows the
\* record was grouped from; avg_runtime is the runtime delta over
\* max(calls delta, 1); so no divisor is below 1.  Where no kcache sample is
\* joined the dividend is the sum of the deltas of those sample rows.
C7_DivisorsAreFloored ==
    /\ StatSeries =>
         \A i \in 1..Len(res.rows) :
            \E q \in res.query :
               LET grp == {x \in res.query :
                             x.ts = q.ts /\ x.mesure_interval = q.mesure_interval}
               IN /\ q.ts = res.rows[i].ts
                  /\ \A f \in PerSecondFields(res.kcache) :
                        /\ res.rows[i][f].d = AtLeastOne(q.mesure_interval)
                        /\ res.rows[i][f].d >= 1
                  /\ res.rows[i].avg_runtime.d = AtLeastOne(res.rows[i].calls.n)
                  /\ res.rows[i].avg_runtime.d >= 1
                  /\ res.rows[i].avg_runtime.n = res.rows[i].load.n
                  /\ ~res.kcache =>
                        /\ res.rows[i].calls.n = SumOf(grp, "calls")
                        /\ res.rows[i].load.n = SumOf(grp, "runtime")
    /\ WaitSeries =>
         \A i \in 1..Len(res.rows) :
            \E q \in res.query :
               LET grp == {x \in res.query :
                             x.ts = q.ts /\ x.mesure_interval = q.mesure_interval}
               IN /\ q.ts = res.rows[i].ts
                  /\ \A col \in res.columns \ {"ts"} :
                        /\ res.rows[i][col].d = AtLeastOne(q.mesure_interval)
                        /\ res.rows[i][col].d >= 1
                        /\ res.rows[i][col].n = SumOf(grp, col)

\* C7 happens: a record of an interval of 0 seconds and a calls delta of 0,
\* both divided by 1
C7_Witness ==
    /\ StatSeries
    /\ \E i \in 1..Len(res.rows) :
          /\ \A q \in res.query : q.ts = res.rows[i].ts => q.mesure_interval = 0
          /\ res.rows[i].calls = [n |-> 0, d |-> 1]
          /\ res.rows[i].avg_runtime.d = 1
          /\ res.rows[i].load.d = 1

ExtensionFields ==
    {"total_sys_hit", "total_disk_read", "minflts", "majflts", "nvcsws", "nivcsws"}

\* C8: for both metric groups, the six extension fields are all in the
\* schema _get_metrics returns, in the column list of the query and in every
\* record when pg_stat_kcache is installed on the server, and none of them
\* is in any of the three when it is not.
C8_ExtensionFieldsIffInstalled ==
    /\ res.op = "_get_metrics" =>
         IF has_extension("pg_stat_kcache")
         THEN ExtensionFields \subseteq res.metrics
         ELSE ExtensionFields \cap res.metrics = {}
    /\ StatSeries =>
         /\ IF has_extension("pg_stat_kcache")
            THEN ExtensionFields \subseteq res.columns
            ELSE ExtensionFields \cap res.columns = {}
         /\ \A i \in 1..Len(res.rows) : DOMAIN res.rows[i] = res.columns

\* C8 happens: a series answered with pg_stat_kcache installed, whose first
\* record holds the six fields
C8_Witness ==
    /\ StatSeries
    /\ has_extension("pg_stat_kcache")
    /\ Len(res.rows) > 0
    /\ ExtensionFields \subseteq DOMAIN res.rows[1]

\* C9: (as claimed) the schema returned with pg_stat_kcache holds every field
\* of the schema returned without it, and has N + M fields.
C9_FlipOnlyAddsFields ==
    (res.op = "_get_metrics" /\ res.kcache) =>
        /\ get_metrics(MetricNames, FALSE) \subseteq res.metrics
        /\ Cardinality(res.metrics) =
             Cardinality(get_metrics(MetricNames, FALSE)) + Cardinality(ExtensionFields)

\* C9 (amended): the schema returned with pg_stat_kcache holds every field of
\* the schema returned without it except total_blks_read, and the six
\* extension fields: N - 1 + M fields.
C9_FlipAddsSixDropsBlksRead ==
    (res.op = "_get_metrics" /\ res.kcache) =>
        /\ res.metrics =
             (get_metrics(MetricNames, FALSE) \ {"total_blks_read"}) \cup ExtensionFields
        /\ "total_blks_read" \in get_metrics(MetricNames, FALSE)
        /\ Cardinality(res.metrics) =
             Cardinality(get_metrics(MetricNames, FALSE)) - 1 + Cardinality(ExtensionFields)

\* C9 happens: a schema returned with pg_stat_kcache, without total_blks_read
C9_Witness ==
    /\ res.op = "_get_metrics"
    /\ res.kcache
    /\ "total_blks_read" \notin res.metrics
    /\ Cardinality(res.metrics) = 10

BaseFields == {"calls", "avg_runtime", "load", "total_blks_read", "total_blks_hit"}

\* C10: (as claimed) every record of a series merged with the kcache sample
\* holds, in the five base fields, the values of the record of the same
\* timestamp of the series selected from the same statement sample without
\* the merge.
C10_BaseValuesUnchangedByMerge ==
    (StatSeries /\ res.kcache) =>
        \A i \in 1..Len(res.rows) :
           \E unmerged \in SeriesSelect(res.query, {}, FALSE) :
              \E k \in 1..Len(unmerged) :
                 /\ unmerged[k].ts = res.rows[i].ts
                 /\ \A f \in BaseFields :
                       unmerged[k][f].n * res.rows[i][f].d =
                         res.rows[i][f].n * unmerged[k][f].d

-----------------------------------------------------------------------------
(* The merge with pg_stat_kcache when its snapshots are missing *)

\* C11: (as claimed) a series merged with pg_stat_kcache holds a record for
\* every timestamp of the statement sample it was computed from, also when
\* the pg_stat_kcache sample has no row at that timestamp.
C11_BaseRecordsKeptWithoutKcacheRows ==
    (StatSeries /\ res.kcache) =>
        \A r \in res.query : \E i \in 1..Len(res.rows) : res.rows[i].ts = r.ts

-----------------------------------------------------------------------------
(* The vocabulary of the wait series *)

\* C12: every row of a wait series a request was answered with holds the
\* timestamp and the fields of exactly one of the two vocabularies, the same
\* one for every row of the request, never fields of both: the four fields
\* count_lwlocknamed, count_lwlocktranche, count_lock, count_bufferpin when
\* the version number of the server is below 100000, and the nine fields of
\* PostgreSQL 10 when it is 100000 or above.  (What is selected when the
\* version number is not known is the matter of C20.)
C12_OneVocabularyPerRequest ==
    WaitSeries =>
        /\ res.columns \ {"ts"} \in {Pg96Columns, Pg10Columns}
        /\ \A i \in 1..Len(res.rows) : DOMAIN res.rows[i] = res.columns
        /\ res.pg_version_num # NULL =>
              res.columns \ {"ts"} =
                 IF res.pg_version_num[1] < 100000 THEN Pg96Columns ELSE Pg10Columns

\* C12 happens: the wait series of a PostgreSQL 10 server, two rows or more,
\* each with the nine fields
C12_Witness ==
    /\ WaitSeries
    /\ res.op = "all_databases_waits"
    /\ res.pg_version_num = <<100000>>
    /\ Len(res.rows) >= 2
    /\ \A i \in 1..Len(res.rows) : DOMAIN res.rows[i] = {"ts"} \cup Pg10Columns

-----------------------------------------------------------------------------
(* The wait series without pg_wait_sampling *)

WaitRequest == res.op \in {"all_databases_waits", "database_waits_overview"}

\* C13: a request of all_databases_waits or of database_waits_overview is
\* answered with the HTTP error 501 exactly when pg_wait_sampling is not
\* installed on the server; the refused request has run no query (its
\* answer holds the error and neither a sample nor a row), and with the
\* extension installed prepare raises nothing and the query is run.
C13_RefusedIffNotInstalled ==
    WaitRequest =>
        /\ res.error = "HTTPError 501" <=> ~has_extension("pg_wait_sampling")
        /\ res.error = "HTTPError 501" =>
              DOMAIN res = {"op", "dbs", "pg_version_num", "error"}
        /\ (has_extension("pg_wait_sampling") /\ res.error = "") =>
              {"query", "rows"} \subseteq DOMAIN res

\* C13 happens: a request of the server scope refused with 501 on a server
\* that holds wait snapshots
C13_Witness ==
    /\ res.op = "all_databases_waits"
    /\ res.error = "HTTPError 501"
    /\ ~has_extension("pg_wait_sampling")
    /\ StoredWaits(1) # {}

-----------------------------------------------------------------------------
(* Windows without a snapshot *)

Series ==
    {"all_databases", "database_overview",
     "all_databases_waits", "database_waits_overview"}

Grids == {"by_database", "all_queries", "by_database_waits", "all_queries_waits"}

\* A request that reached its query: the answer holds the window
Queried == res.op \in Series \cup Grids /\ "from" \in DOMAIN res

\* The server holds no snapshot of the window of the request
NoSnapshotInWindow ==
    \A d \in powa_databases :
       /\ InWindow(StoredRecords(d), res.from, res.to) = {}
       /\ InWindow(StoredWaits(d), res.from, res.to) = {}

-----------------------------------------------------------------------------
(* Inverted windows and budgets of no sample *)

-----------------------------------------------------------------------------
(* The window of a request *)

\* The timestamps at which the family a request reads holds a snapshot of
\* the database d
StoredTsOf(op, d) ==
    IF op \in {"all_databases_waits", "database_waits_overview",
               "by_database_waits", "all_queries_waits"}
    THEN {w.ts : w \in StoredWaits(d)}
    ELSE StoredTs(d)

\* C16: every snapshot an answered series or grid request was computed from
\* lies in the window of the request, from <= ts <= to, whether it was read
\* from the history tier or from the current tier; the snapshots a database
\* holds at ts = from and at ts = to are read (both bounds are inclusive;
\* for a series, under the budget of the code, which keeps every snapshot
\* of these windows).
C16_ContributionsLieInWindow ==
    (Queried /\ res.error = "") =>
        /\ res.op \in Series =>
              /\ \A r \in res.query : res.from <= r.ts /\ r.ts <= res.to
              /\ res.samples = SAMPLES =>
                    \A d \in res.dbs :
                       \A ts \in {res.from, res.to} \cap StoredTsOf(res.op, d) :
                          \E r \in res.query : r.dbid = d /\ r.ts = ts
        /\ res.op \in Grids =>
              /\ \A b \in res.base : res.from <= b.ts /\ b.ts <= res.to
              /\ \A d \in res.dbs :
                    \A ts \in {res.from, res.to} \cap StoredTsOf(res.op, d) :
                       \E b \in res.base : b.dbid = d /\ b.ts = ts

\* C16 happens: a grid computed from a window that a coalesced range
\* overlaps, the range holding a snapshot before the window, and that ends
\* before a snapshot of the current tier
C16_Witness ==
    /\ res.op = "by_database"
    /\ res.error = ""
    /\ res.base # {}
    /\ \E h \in powa_statements_history_db :
          /\ RangeOverlaps(h.coalesce_range, res.from, res.to)
          /\ \E r \in h.records : r.ts < res.from
    /\ \E c \in powa_statements_history_current_db : c.record.ts > res.to

-----------------------------------------------------------------------------
(* A snapshot held by both tiers *)

\* C17: (as claimed) a snapshot that the history tier and the current tier
\* both hold is counted once: the calls of a row of the statement sample
\* that has a successor are the increase, clamped at 0, of the stored
\* counter between the two timestamps, whether or not the snapshots of
\* these timestamps are held twice.
C17_SnapshotOfBothTiersCountsOnce ==
    (StatSeries /\ Copied) =>
        \A r \in res.query : \A n \in Successor(res.query, r) :
           r.calls = Clamp(StatValue(n.dbid, n.ts, "calls")
                           - StatValue(r.dbid, r.ts, "calls"))

-----------------------------------------------------------------------------
(* The order of the records *)

\* The field a grid is ranked by
RankingField ==
    [by_database |-> "calls", all_queries |-> "runtime",
     by_database_waits |-> "counts", all_queries_waits |-> "counts"]

\* C18: the records of an answered series (all_databases, database_overview,
\* all_databases_waits, database_waits_overview) come in ascending order of
\* ts; the records of an answered grid come in descending order of its
\* ranking field: the sum of calls for by_database, the sum of runtime for
\* all_queries, the sum of count for by_database_waits and all_queries_waits.
C18_SeriesAscendGridsDescend ==
    (Queried /\ res.error = "") =>
        \A i \in 1..Len(res.rows) : \A j \in 1..Len(res.rows) :
           i < j =>
              IF res.op \in Series
              THEN res.rows[i].ts <= res.rows[j].ts
              ELSE res.rows[i][RankingField[res.op]]
                      >= res.rows[j][RankingField[res.op]]

\* C18 happens: the grid of the databases with database 2 ahead of database
\* 1, for its greater number of calls
C18_Witness ==
    /\ res.op = "by_database"
    /\ res.error = ""
    /\ Len(res.rows) = 2
    /\ res.rows[1].datname = 2
    /\ res.rows[1].calls > res.rows[2].calls

-----------------------------------------------------------------------------
(* The extensions seen by one dashboard *)

Built == res.op \in Pages /\ res.pc = "done" /\ res.error = ""

-----------------------------------------------------------------------------
(* The version number that is not known *)

\* C20: (as claimed) when get_pg_version_num answers None, the dashboard
\* ServerOverview and the query of all_databases_waits select the nine
\* fields of PostgreSQL 10.
C20_UnknownVersionSelectsPg10 ==
    /\ (Built /\ res.op = "ServerOverview" /\ res.pg_version_num = NULL
        /\ \E i \in 1..Len(res.graphs_dash) : res.graphs_dash[i] = "Wait Events") =>
          res.metrics = Pg10Columns
    /\ (WaitSeries /\ res.op = "all_databases_waits"
        /\ res.pg_version_num = NULL) =>
          res.columns = {"ts"} \cup Pg10Columns

-----------------------------------------------------------------------------
(* The wait grids without pg_wait_sampling *)

WaitSources ==
    {"all_databases_waits", "database_waits_overview",
     "by_database_waits", "all_queries_waits"}

\* C21: every data source of the wait events, the two grids among them,
\* answers a request made for a server without pg_wait_sampling with the
\* precondition failure (HTTP error 501) and has run no query: its answer
\* holds neither the rows nor the inner query.
C21_EveryWaitSourceRefusesWithoutExtension ==
    (res.op \in WaitSources /\ ~has_extension("pg_wait_sampling")) =>
        /\ res.error = "HTTPError 501"
        /\ DOMAIN res \cap {"rows", "inner_query", "query"} = {}

-----------------------------------------------------------------------------
(* The groups of the ranking queries *)

\* The columns a ranking query groups by, and the counter of its HAVING
GroupingLevel ==
    [by_database |-> {"dbid"},
     all_queries |-> {"dbid", "queryid", "userid"},
     by_database_waits |-> {"dbid", "event_type", "event"},
     all_queries_waits |-> {"dbid", "queryid", "event_type", "event"}]

HavingCounter ==
    [by_database |-> "calls", all_queries |-> "calls",
     by_database_waits |-> "count", all_queries_waits |-> "count"]

GroupOf(r, level) == [f \in level |-> r[f]]

Ranked == res.op \in Grids /\ res.error = ""

\* C22: a ranking query emits a group, at its own grouping level (the
\* database for powa_getstatdata_db), exactly when the counter of the group
\* (calls, or count for the waits) takes two different values among the
\* snapshots of the window, that is when max - min > 0; a group whose
\* counter is the same in every snapshot of the window is discarded, and no
\* group is emitted that has no snapshot in the window.
C22_GroupEmittedIffCounterMoved ==
    Ranked =>
        LET level == GroupingLevel[res.op]
            counter == HavingCounter[res.op]
            emitted == {GroupOf(c, level) :
                          c \in {x \in res.inner_query : x.dbid \in res.dbs}}
            groups == {GroupOf(r, level) : r \in res.base}
        IN /\ emitted \subseteq groups
           /\ \A k \in groups :
                 k \in emitted <=>
                    \E r1, r2 \in res.base :
                       /\ GroupOf(r1, level) = k
                       /\ GroupOf(r2, level) = k
                       /\ r1[counter] # r2[counter]

\* C22 happens: the grid of the databases over a window in which one
\* database has two snapshots of the same calls and is discarded, while the
\* other database is emitted
C22_Witness ==
    /\ Ranked
    /\ res.op = "by_database"
    /\ \E d \in powa_databases :
          /\ \E r1, r2 \in res.base :
                r1.dbid = d /\ r2.dbid = d /\ r1.ts # r2.ts
          /\ \A c \in res.inner_query : c.dbid # d
    /\ res.inner_query # {}

-----------------------------------------------------------------------------
(* The sampler on partitions of growing size *)

\* How many snapshots the sampler keeps of a partition of `total` snapshots
KeptOf(total, samples) ==
    Cardinality({n \in 1..total : Sampled(n, total, samples)})

Smaller(a, b) == IF a < b THEN a ELSE b

\* C23: (as claimed) for a fixed budget K the sampler keeps of a partition
\* at least as many snapshots as of any smaller partition.
C23_KeptCountIsMonotonic ==
    part.op = "sample" =>
        \A total1 \in 0..part.total :
           KeptOf(total1, part.samples) <= Cardinality(part.kept)

\* C23 (amended): for a fixed budget K and total1 <= total2 the sampler
\* keeps for total2 at least as many snapshots as for total1 when the two
\* partitions have the same stride, and in every case at least the smaller
\* of K + 1 and the number kept for total1; where the stride grows the
\* number kept may drop (K = 100: 201 of 201 and 101 of 202).
C23_KeptCountIsMonotonicWithinStride ==
    part.op = "sample" =>
        \A total1 \in 0..part.total :
           /\ Stride(total1, part.samples) = part.stride =>
                 KeptOf(total1, part.samples) <= Cardinality(part.kept)
           /\ Smaller(KeptOf(total1, part.samples), part.samples + 1)
                 <= Cardinality(part.kept)

\* C23 happens: a partition of the stride 2 under K = 100 that keeps fewer
\* snapshots than a smaller partition of the stride 1 and more than a
\* smaller one of its own stride
C23_Witness ==
    /\ part.op = "sample"
    /\ part.samples = SAMPLES
    /\ part.stride = 2
    /\ \E total1 \in 0..part.total :
          /\ Stride(total1, SAMPLES) = 1
          /\ KeptOf(total1, SAMPLES) > Cardinality(part.kept)
    /\ \E total1 \in 0..part.total :
          /\ Stride(total1, SAMPLES) = 2
          /\ KeptOf(total1, SAMPLES) < Cardinality(part.kept)

-----------------------------------------------------------------------------
(* The ends of a sampled partition *)

\* C24: of a non-empty partition with the stride
\* s = max(floor(total / (K+1)), 1) the sampler keeps snapshots near both
\* ends: the first kept rank is exactly s (so the first raw snapshot is kept
\* only when s = 1), the last kept rank is above total - s, and consecutive
\* kept ranks differ by exactly s.
C24_KeptRanksSpanThePartition ==
    (part.op = "sample" /\ part.total >= 1) =>
        LET s == AtLeastOne(part.total \div (part.samples + 1))
        IN /\ part.kept # {}
           /\ Min(part.kept) = s
           /\ 1 \in part.kept => s = 1
           /\ Max(part.kept) > part.total - s
           /\ \A n \in part.kept :
                 n # Max(part.kept) =>
                    /\ n + s \in part.kept
                    /\ \A m \in (n + 1)..(n + s - 1) : m \notin part.kept

\* C24 happens: a partition of the stride 2 and of an odd size under
\* K = 100, whose first and last raw snapshots are not kept
C24_Witness ==
    /\ part.op = "sample"
    /\ part.samples = SAMPLES
    /\ part.total = 2 * (SAMPLES + 1) + 3
    /\ 1 \notin part.kept
    /\ Min(part.kept) = 2
    /\ Max(part.kept) = part.total - 1

-----------------------------------------------------------------------------
(* The metrics mapping of the classes *)

\* C25: _get_metrics of GlobalDatabasesMetricGroup and of
\* DatabaseOverviewMetricGroup leaves the metrics mapping of its class as it
\* was declared, whatever the calls made before, with and without
\* pg_stat_kcache; what a call returns depends on the capability of the
\* server alone: the declared metrics without the six pg_stat_kcache fields
\* or without total_blks_read.
C25_ClassMetricsUnchanged ==
    /\ \A group \in DOMAIN cls_metrics : cls_metrics[group] = MetricNames
    /\ res.op = "_get_metrics" =>
          res.metrics = IF res.kcache
                        THEN MetricNames \ {"total_blks_read"}
                        ELSE MetricNames \ KcacheMetricNames

\* C25 happens: a call for a server with pg_stat_kcache, made after the
\* extension was created, has answered and the mapping of its class still
\* holds total_blks_read and the six pg_stat_kcache fields
C25_Witness ==
    /\ res.op = "_get_metrics"
    /\ res.kcache
    /\ "total_blks_read" \notin res.metrics
    /\ KcacheMetricNames \subseteq res.metrics
    /\ {"total_blks_read"} \cup KcacheMetricNames \subseteq cls_metrics[res.group]

-----------------------------------------------------------------------------
(* The size of a sampled partition *)

\* C26: of a partition of total >= 0 snapshots and for a budget K >= 1 the
\* sampler keeps floor(total / stride) snapshots, the stride being
\* max(floor(total / (K+1)), 1), and never more than 2K + 1.
C26_KeptCountAtMostTwiceBudgetPlusOne ==
    part.op = "sample" =>
        /\ Cardinality(part.kept) =
              part.total \div AtLeastOne(part.total \div (part.samples + 1))
        /\ Cardinality(part.kept) <= 2 * part.samples + 1

\* C26 happens: the largest partition of the stride 1 under K = 100, of
\* which all 2K + 1 = 201 snapshots are kept
C26_Witness ==
    /\ part.op = "sample"
    /\ part.samples = SAMPLES
    /\ part.total = 2 * SAMPLES + 1
    /\ Cardinality(part.kept) = 2 * SAMPLES + 1

-----------------------------------------------------------------------------
(* The dashboard an instance keeps *)

Returned == res.op \in Pages /\ res.pc = "done"

\* C27: whatever the calls of dashboard() made on an instance of
\* ServerOverview or DatabaseOverview, a dashboard that a call returns is
\* fully built, it holds the row of the graphs and the grid; and a call
\* that raised midway has left no _dashboard on the instance, so that the
\* next call builds the dashboard anew.
C27_ReturnedDashboardIsFullyBuilt ==
    Returned =>
        /\ res.error = "" =>
              /\ \E i \in 1..Len(res.widgets) : res.widgets[i] = "graphs"
              /\ \E i \in 1..Len(res.widgets) : res.widgets[i] = "grid"
        /\ res.error # "" => self_dashboard[res.op] = NULL

-----------------------------------------------------------------------------
(* The timestamps of a series of the server *)

\* C28: a series of the server (all_databases, all_databases_waits) holds
\* at most one record per timestamp: the ts of its records are strictly
\* increasing, also when two databases have different measure intervals at
\* the same ts.
C28_ServerSeriesOneRecordPerTs ==
    (res.op \in {"all_databases", "all_databases_waits"}
     /\ "rows" \in DOMAIN res) =>
        \A i, j \in 1..Len(res.rows) :
           i < j => res.rows[i].ts < res.rows[j].ts

-----------------------------------------------------------------------------
(* The wait events of the two scopes *)

WaitEventsTab ==
    \E i \in 1..Len(res.graphs_dash) : res.graphs_dash[i] = "Wait Events"

\* C29: for every version the server may report, an unknown version (None)
\* among them, the wait overview of a database (the query
\* database_waits_overview and the dashboard of DatabaseOverview) selects
\* the vocabulary that the wait overview of the server selects for that
\* version, and in each scope the graph of the dashboard plots the fields
\* that the query emits.
C29_BothScopesSelectTheSameVocabulary ==
    /\ res.op = "database_waits_overview" =>
          /\ res.error # "TypeError"
          /\ "columns" \in DOMAIN res =>
                res.columns = {"ts"} \cup GlobalWaitsColumns(res.pg_version_num)
    /\ res.op = "all_databases_waits" =>
          /\ res.error # "TypeError"
          /\ "columns" \in DOMAIN res =>
                res.columns = {"ts"} \cup GlobalWaitsColumns(res.pg_version_num)
    /\ (res.op \in Pages /\ res.pc = "done") =>
          /\ res.error # "TypeError"
          /\ WaitEventsTab => res.metrics = GlobalWaitsColumns(res.pg_version_num)

-----------------------------------------------------------------------------
(* The dashboard of each combination of the extensions *)

\* A dashboard built by this call, during which has_extension gave one
\* answer for each extension
BuiltUnder(kcache, waits) ==
    /\ Built /\ ~res.cached
    /\ res.has["pg_stat_kcache"] = {kcache}
    /\ res.has["pg_wait_sampling"] = {waits}

\* The metrics of GlobalWaitsMetricGroup and DatabaseWaitOverviewMetricGroup
WaitMetricNames == Pg96Columns \cup Pg10Columns

\* C30: for each of the four combinations of pg_stat_kcache and
\* pg_wait_sampling under which a dashboard is built, every metric that a
\* graph of the built dashboard plots is in the schema that _get_metrics of
\* its metric group resolves for the same combination (total_blks_read is
\* not plotted with pg_stat_kcache, no pg_stat_kcache field is plotted
\* without it), the colours of the block graph are as many as its metrics,
\* and the graphs are in a tab container exactly when one of the two
\* extensions is present.
C30_GraphsPlotResolvedSchema ==
    \A kcache, waits \in BOOLEAN :
       BuiltUnder(kcache, waits) =>
          /\ {res.block_graph[i] : i \in 1..Len(res.block_graph)}
                \cup res.runtime_graph \cup res.sys_graphs
                \subseteq get_metrics(MetricNames, kcache)
          /\ res.metrics \subseteq WaitMetricNames
          /\ res.metrics # {} <=> waits
          /\ Len(res.color_scheme) = Len(res.block_graph)
          /\ res.tab_container <=> (kcache \/ waits)

\* C30 happens: a dashboard of the server built with both extensions
\* present, in a tab container, whose block graph plots the two
\* pg_stat_kcache fields before total_blks_hit
C30_Witness ==
    /\ BuiltUnder(TRUE, TRUE)
    /\ res.op = "ServerOverview"
    /\ res.tab_container
    /\ res.block_graph = <<"total_disk_read", "total_sys_hit", "total_blks_hit">>
    /\ res.sys_graphs # {}

====
